---- MODULE Spec2Model ----
(***************************************************************************)
(* A model of netgraph's layout core (src/netgraph/_node_layout.py and     *)
(* src/netgraph/_edge_layout.py).                                          *)
(*                                                                         *)
(* Part I   circular layout: greedy initial order and circular sifting     *)
(*          (_reduce_crossings, _initialize_node_order,                    *)
(*          _optimize_node_order, _get_total_crossings, _is_cross).        *)
(* Part II  multi-component handling and bounding-box packing              *)
(*          (_handle_multiple_components, _get_component_bboxes).          *)
(* Part III force-directed layout (get_fruchterman_reingold_layout).       *)
(* Part IV  straight and self-loop edge paths (get_straight_edge_paths,    *)
(*          get_selfloop_paths).                                           *)
(* Part V   removal of duplicate edges (src/netgraph/_parser.py,           *)
(*          _handle_multigraphs).                                          *)
(* Part VI  force-directed edge bundling (get_bundled_edge_paths).         *)
(* Part VII reproducibility of the stochastic layouts (get_random_layout, *)
(*          get_fruchterman_reingold_layout, get_curved_edge_paths).       *)
(***************************************************************************)
EXTENDS Integers, Sequences, FiniteSets, TLC

\* ------------------------------------------------------------------------
\* Bounds of the model
\* ------------------------------------------------------------------------

\* Largest number of nodes of a graph handed to the circular layout.
MaxNodes == 4

\* ------------------------------------------------------------------------
\* Generic helpers
\* ------------------------------------------------------------------------

Range(s) == {s[i] : i \in DOMAIN s}

Min(S) == CHOOSE x \in S : \A y \in S : x <= y

Max(S) == CHOOSE x \in S : \A y \in S : x >= y

Perms(S) ==
    {p \in [1..Cardinality(S) -> S] : \A i, j \in 1..Cardinality(S) : p[i] = p[j] => i = j}

\* ------------------------------------------------------------------------
\* Part I: state of one call of the circular crossing reduction
\* ------------------------------------------------------------------------

VARIABLES
    node_to_neighbours, \* adjacency list: node -> set of neighbours
    keys,               \* iteration order of the adjacency list (dict order)
    entry,              \* "reduce" (_reduce_crossings) or "sift" (_optimize_node_order called directly)
    max_iterations,     \* argument of _optimize_node_order
    cpc,                \* position in the call
    ordered,            \* _initialize_node_order: the sequence built so far
    remaining,          \* _initialize_node_order: nodes not placed yet
    open_edges,         \* _initialize_node_order: edges with one placed endpoint
    start_order,        \* node order handed to _optimize_node_order
    node_order,         \* _optimize_node_order: current order
    best_order,         \* _optimize_node_order: best order of the current sift of u
    total_crossings,    \* _optimize_node_order: incrementally maintained count
    minimum_crossings,  \* _optimize_node_order: count of best_order
    previous_best,      \* _optimize_node_order: count at the start of the pass
    iteration,          \* _optimize_node_order: pass counter (0-based)
    pass_nodes,         \* node_order.copy() the pass iterates over
    upos,               \* position in pass_nodes of the node u being sifted
    ii,                 \* 0-based index of u when its sift started
    jj,                 \* loop variable of the inner loop
    warned              \* the "maximum number of iterations" warning was emitted

circVars == <<node_to_neighbours, keys, entry, max_iterations, cpc, ordered, remaining,
              open_edges, start_order, node_order, best_order, total_crossings,
              minimum_crossings, previous_best, iteration, pass_nodes, upos, ii, jj,
              warned>>

\* ------------------------------------------------------------------------
\* Part II: state of one call of a layout through _handle_multiple_components
\* ------------------------------------------------------------------------

VARIABLES
    d_which,      \* "node": the wrapper of _node_layout.py; "edge": that of _edge_layout.py
    d_kind,       \* the wrapped layout function
    d_edges,      \* argument edges
    d_nodes,      \* argument nodes ({} stands for None or an empty list)
    d_origin,     \* keyword argument origin
    d_scale,      \* keyword argument scale
    dpc,          \* position in the call
    components,   \* the components, in the order they are iterated
    bboxes,       \* the bounding boxes of _get_component_bboxes (numerators)
    bbox_den,     \* their denominators, one per axis
    d_idx,        \* position of the loop over the components
    calls,        \* the calls of the wrapped function made so far
    d_positions,  \* the mapping being returned (node -> position, edge -> path)
    d_den,        \* denominators of the positions, one per axis
    d_written,    \* the keys written to the mapping, in order
    d_outcome     \* "running", "returned" or the exception raised

decVars == <<d_which, d_kind, d_edges, d_nodes, d_origin, d_scale, dpc, components,
             bboxes, bbox_den, d_idx, calls, d_positions, d_den, d_written, d_outcome>>

\* ------------------------------------------------------------------------
\* Part III: state of one call of get_fruchterman_reingold_layout
\* ------------------------------------------------------------------------

VARIABLES
    f_edges,            \* argument edges
    f_given,            \* TRUE: origin and scale are passed; FALSE: both are None
    f_origin,           \* origin, as passed and then as defaulted
    f_scale,            \* scale, as passed and then as defaulted
    f_supplied,         \* argument node_positions as it was at the call (<<>> stands for None)
    f_node_positions,   \* the caller's node_positions mapping
    f_fixed,            \* argument fixed_nodes as it was at the call ({} stands for None)
    f_fixed_nodes,      \* the fixed_nodes list
    f_total_iterations, \* argument total_iterations
    fpc,                \* position in the call
    f_array,            \* node_positions_as_array, by node of unique_nodes
    f_is_mobile,        \* is_mobile, by node of unique_nodes
    f_ii,               \* iterations of the main loop done
    f_rescaled,         \* _rescale_to_frame was applied
    f_result,           \* the mapping returned
    f_error_nodes,      \* the nodes listed in the message of the ValueError
    f_outcome,          \* "running", "returned" or the exception raised
    f_outside,          \* the nodes whose candidate of the last iteration was outside the bbox
    f_moved             \* the nodes that the last iteration has moved

frVars == <<f_edges, f_given, f_origin, f_scale, f_supplied, f_node_positions, f_fixed,
            f_fixed_nodes, f_total_iterations, fpc, f_array, f_is_mobile, f_ii,
            f_rescaled, f_result, f_error_nodes, f_outcome, f_outside, f_moved>>

\* ------------------------------------------------------------------------
\* Part IV: state of one call of get_straight_edge_paths or get_selfloop_paths
\* ------------------------------------------------------------------------

VARIABLES
    r_kind,            \* "straight": get_straight_edge_paths; "selfloop": get_selfloop_paths
    r_edges,           \* argument edges
    r_node_positions,  \* argument node_positions
    r_edge_width,      \* argument edge_width
    r_selfloop_radius, \* argument selfloop_radius
    r_origin,          \* argument origin
    r_scale,           \* argument scale
    r_remaining,       \* the edges the loop has not reached yet
    r_edge_paths,      \* edge_paths
    r_warnings,        \* the edges a diagnostic was emitted for
    rpc                \* position in the call

routeVars == <<r_kind, r_edges, r_node_positions, r_edge_width, r_selfloop_radius,
               r_origin, r_scale, r_remaining, r_edge_paths, r_warnings, rpc>>

\* ------------------------------------------------------------------------
\* Part V: a call of a parser wrapped by _handle_multigraphs
\* ------------------------------------------------------------------------

VARIABLES p_edges, p_new_edges, p_ii, p_warnings, p_result, ppc

parseVars == <<p_edges, p_new_edges, p_ii, p_warnings, p_result, ppc>>

\* No call of Part V in progress.
ParseIdle ==
    /\ p_edges = <<>>
    /\ p_new_edges = <<>>
    /\ p_ii = 0
    /\ p_warnings = 0
    /\ p_result = <<>>
    /\ ppc = "idle"

\* ------------------------------------------------------------------------
\* Part VI: a call of get_bundled_edge_paths
\* ------------------------------------------------------------------------

VARIABLES
    b_edges,             \* argument edges
    b_node_positions,    \* argument node_positions
    b_total_cycles,      \* argument total_cycles
    b_total_iterations,  \* total_iterations, shrinking after every cycle
    b_halvings,          \* how often step_size was halved
    b_warnings,          \* number of warnings emitted
    b_simulated,         \* edges after the removal of self-loops and reverse edges
    b_reverse_edges,     \* reverse_edges
    b_compatibility,     \* edge_compatibility
    b_control_points,    \* edge_to_control_points
    b_cycle,             \* number of cycles begun
    b_iteration,         \* number of sub-iterations done in the cycle
    b_paths,             \* the returned mapping
    bpc                  \* position in the call

bundleVars == <<b_edges, b_node_positions, b_total_cycles, b_total_iterations, b_halvings,
                b_warnings, b_simulated, b_reverse_edges, b_compatibility, b_control_points,
                b_cycle, b_iteration, b_paths, bpc>>

\* No call of Part VI in progress.
BundleIdle ==
    /\ b_edges = <<>>
    /\ b_node_positions = <<>>
    /\ b_total_cycles = 0
    /\ b_total_iterations = 0
    /\ b_halvings = 0
    /\ b_warnings = 0
    /\ b_simulated = <<>>
    /\ b_reverse_edges = {}
    /\ b_compatibility = {}
    /\ b_control_points = <<>>
    /\ b_cycle = 0
    /\ b_iteration = 0
    /\ b_paths = <<>>
    /\ bpc = "idle"

\* Part VII: two runs of a stochastic layout on the same inputs
VARIABLES
    s_layout,           \* "random", "force" or "curved": the layout both runs call;
                        \* "curved_default_k": the curved edge routing without the argument k
    s_edges,            \* the edge list of both runs
    s_node_positions,   \* the node positions of both runs (curved edge routing)
    s_seed,             \* the state of the random number generator at the start of both runs
    s_total_iterations, \* total_iterations of both runs
    s_drawn,            \* per run: how many numbers the run has drawn from its stream
    s_control_points,   \* per run: edge_to_control_points, per index of the edge
    s_positions,        \* per run: the positions of unique_nodes
    s_ii,               \* per run: the iterations of the main loop done
    s_output,           \* per run: the value returned
    spc                 \* per run: "call", "loop" or "done"

stochVars == <<s_layout, s_edges, s_node_positions, s_seed, s_total_iterations, s_drawn,
               s_control_points, s_positions, s_ii, s_output, spc>>

\* No call of Part VII in progress.
StochIdle ==
    /\ s_layout = "none"
    /\ s_edges = <<>>
    /\ s_node_positions = <<>>
    /\ s_seed = 0
    /\ s_total_iterations = 0
    /\ s_drawn = <<>>
    /\ s_control_points = <<>>
    /\ s_positions = <<>>
    /\ s_ii = <<>>
    /\ s_output = <<>>
    /\ spc = <<>>

vars == <<circVars, decVars, frVars, routeVars, parseVars, bundleVars, stochVars>>

\* The variables of the other parts, which a call of Part I leaves alone.
circOther == <<decVars, frVars, routeVars, parseVars, bundleVars, stochVars>>

\* The variables of the other parts, which a call of Part II leaves alone.
decOther == <<circVars, frVars, routeVars, parseVars, bundleVars, stochVars>>

\* The variables of the other parts, which a call of Part III leaves alone.
frOther == <<circVars, decVars, routeVars, parseVars, bundleVars, stochVars>>

\* The variables of the other parts, which a call of Part IV leaves alone.
routeOther == <<circVars, decVars, frVars, parseVars, bundleVars, stochVars>>

\* The variables of the other parts, which a call of Part V leaves alone.
parseOther == <<circVars, decVars, frVars, routeVars, bundleVars, stochVars>>

\* The variables of the other parts, which a call of Part VI leaves alone.
bundleOther == <<circVars, decVars, frVars, routeVars, parseVars, stochVars>>

\* The variables of the other parts, which a call of Part VII leaves alone.
stochOther == <<circVars, decVars, frVars, routeVars, parseVars, bundleVars>>

\* No call of Part IV in progress.
RouteIdle ==
    /\ r_kind = "none"
    /\ r_edges = {}
    /\ r_node_positions = <<>>
    /\ r_edge_width = <<>>
    /\ r_selfloop_radius = 0
    /\ r_origin = [x |-> 0, y |-> 0]
    /\ r_scale = [x |-> 1, y |-> 1]
    /\ r_remaining = {}
    /\ r_edge_paths = <<>>
    /\ r_warnings = {}
    /\ rpc = "idle"

\* No call of Part III in progress.
FrIdle ==
    /\ f_edges = {}
    /\ f_given = FALSE
    /\ f_origin = [x |-> 0, y |-> 0]
    /\ f_scale = [x |-> 1, y |-> 1]
    /\ f_supplied = <<>>
    /\ f_node_positions = <<>>
    /\ f_fixed = {}
    /\ f_fixed_nodes = {}
    /\ f_total_iterations = 0
    /\ fpc = "idle"
    /\ f_array = <<>>
    /\ f_is_mobile = <<>>
    /\ f_ii = 0
    /\ f_rescaled = FALSE
    /\ f_result = <<>>
    /\ f_error_nodes = {}
    /\ f_outcome = "none"
    /\ f_outside = {}
    /\ f_moved = {}

\* ------------------------------------------------------------------------
\* Part I: inputs of the circular crossing reduction
\* ------------------------------------------------------------------------

\* Default of the max_iterations argument of _optimize_node_order.
DefaultMaxIterations == 100

\* Stands for np.inf in _initialize_node_order: larger than any neighbour count.
Infinity == MaxNodes + 1

AllPairs(n) == {e \in (1..n) \X (1..n) : e[1] < e[2]}

\* _edge_list_to_adjacency_list(edges, directed=False): every edge is entered
\* in both directions, so the adjacency list is symmetric.
EdgeListToAdjacencyList(edges, nodes) ==
    [v \in nodes |-> {w \in nodes : <<v, w>> \in edges \/ <<w, v>> \in edges}]

RECURSIVE Reachable(_, _, _)
Reachable(adj, frontier, seen) ==
    IF frontier \subseteq seen THEN seen
    ELSE Reachable(adj, UNION {adj[v] : v \in frontier}, seen \cup frontier)

IsConnected(edges, n) ==
    Reachable(EdgeListToAdjacencyList(edges, 1..n), {1}, {}) = 1..n

\* The simple connected graphs on the node set 1..n.
ConnectedGraphs(n) == {g \in SUBSET AllPairs(n) : IsConnected(g, n)}

\* The three 4-cycles on the nodes 1..4 (as edge sets).
IsCycle4(g, n) ==
    /\ n = 4
    /\ Cardinality(g) = 4
    /\ \A v \in 1..4 : Cardinality({e \in g : e[1] = v \/ e[2] = v}) = 2

Identity(n) == [i \in 1..n |-> i]

\* Iteration orders of the adjacency list. The algorithms never compare node
\* identifiers, so a graph with an arbitrary key order is a relabelling of a
\* labelled graph with the key order 1..n; all labelled graphs are drawn with
\* that order, and the 4-cycles are drawn with every key order in addition.
KeyOrders(g, n) == IF IsCycle4(g, n) THEN Perms(1..n) ELSE {Identity(n)}

\* ------------------------------------------------------------------------
\* Part I: pure functions
\* ------------------------------------------------------------------------

\* 0-based index of x in order (np.where(node_order == x)).
IndexOf(order, x) == (CHOOSE i \in 1..Len(order) : order[i] = x) - 1

\* np.where(np.in1d(node_order, edge)): the ascending indices of the edge's nodes.
EdgeIndices(order, edge) == {IndexOf(order, edge[1]), IndexOf(order, edge[2])}

_is_cross(order, edge_1, edge_2) ==
    LET s1 == Min(EdgeIndices(order, edge_1))
        t1 == Max(EdgeIndices(order, edge_1))
        s2 == Min(EdgeIndices(order, edge_2))
        t2 == Max(EdgeIndices(order, edge_2))
    IN  \/ (s1 < s2 /\ s2 < t1 /\ t1 < t2)
        \/ (s2 < s1 /\ s1 < t2 /\ t2 < t2)

\* itertools.product(edges1, edges2), counting the pairs that _is_cross accepts.
_get_total_crossings(order, edges1, edges2) ==
    Cardinality({p \in edges1 \X edges2 : _is_cross(order, p[1], p[2])})

_swap_values(arr, value_1, value_2) ==
    [i \in DOMAIN arr |->
        IF arr[i] = value_1 THEN value_2
        ELSE IF arr[i] = value_2 THEN value_1
        ELSE arr[i]]

\* node_to_edges[node] of _optimize_node_order.
NodeToEdges(n2n, node) == {<<node, neighbour>> : neighbour \in n2n[node]}

\* undirected_edges of _optimize_node_order: the nodes are visited in key order
\* and an edge is added unless its reverse is in the set already, so each edge is
\* kept in the direction that starts at the endpoint met first.
UndirectedEdges(n2n, ks) ==
    {e \in UNION {NodeToEdges(n2n, v) : v \in Range(ks)} :
        IndexOf(ks, e[1]) <= IndexOf(ks, e[2])}

PlacedNeighbours(n2n, node, placed) ==
    Cardinality({nb \in n2n[node] : nb \in Range(placed)})

UnplacedNeighbours(n2n, node, placed) ==
    Cardinality({nb \in n2n[node] : nb \notin Range(placed)})

\* The selection loop of _initialize_node_order over `remaining`, from position
\* i on, with the running maximum, minimum and selected index (0 = none yet).
RECURSIVE SelectScan(_, _, _, _, _, _, _)
SelectScan(n2n, rem, placed, i, maxPlaced, minUnplaced, sel) ==
    IF i > Len(rem) THEN sel
    ELSE LET p == PlacedNeighbours(n2n, rem[i], placed)
             u == UnplacedNeighbours(n2n, rem[i], placed)
         IN  IF (p > maxPlaced) \/ (p = maxPlaced /\ u < minUnplaced)
             THEN SelectScan(n2n, rem, placed, i + 1, p, u, i)
             ELSE SelectScan(n2n, rem, placed, i + 1, maxPlaced, minUnplaced, sel)

\* Mutation of IsImprovement: a swap is kept when it does not lower the count.
IsImprovement_NotLower(total, minimum) == total >= minimum

\* Mutation of SelectedIdx: the first of the remaining nodes is selected.
SelectedIdx_First(n2n, rem, placed) == 1

\* selected_idx (1-based) after the selection loop.
SelectedIdx(n2n, rem, placed) == SelectScan(n2n, rem, placed, 1, 0, Infinity, 0)

RemoveAt(s, i) == [k \in 1..(Len(s) - 1) |-> IF k < i THEN s[k] ELSE s[k + 1]]

\* ------------------------------------------------------------------------
\* Part I: initial states and steps
\* ------------------------------------------------------------------------

NoOrder == <<>>

CircInit ==
    \E n \in 2..MaxNodes :
        \E g \in ConnectedGraphs(n) :
            /\ node_to_neighbours = EdgeListToAdjacencyList(g, 1..n)
            /\ keys \in KeyOrders(g, n)
            /\ entry \in {"reduce", "sift"}
            /\ max_iterations \in
                   (IF entry = "reduce" THEN {DefaultMaxIterations} ELSE {1, 2})
            /\ cpc = IF entry = "reduce" THEN "initialize" ELSE "optimize"
            \* nodes = list(keys); ordered = nodes[:1]; remaining = nodes[1:]
            /\ ordered = IF entry = "reduce" THEN <<keys[1]>> ELSE NoOrder
            /\ remaining = IF entry = "reduce" THEN Tail(keys) ELSE NoOrder
            /\ open_edges = IF entry = "reduce"
                            THEN NodeToEdges(node_to_neighbours, keys[1]) ELSE {}
            \* node_order is None: node_order = list(node_to_neighbours.keys())
            /\ start_order = IF entry = "reduce" THEN NoOrder ELSE keys
            /\ node_order = NoOrder
            /\ best_order = NoOrder
            /\ total_crossings = 0
            /\ minimum_crossings = 0
            /\ previous_best = 0
            /\ iteration = 0
            /\ pass_nodes = NoOrder
            /\ upos = 0
            /\ ii = 0
            /\ jj = 0
            /\ warned = FALSE

\* One iteration of the while loop of _initialize_node_order.
InitializeStep ==
    /\ UNCHANGED circOther
    /\ cpc = "initialize"
    /\ remaining # <<>>
    /\ LET idx      == SelectedIdx(node_to_neighbours, remaining, ordered)
           selected == remaining[idx]
           rest     == RemoveAt(remaining, idx)
           closed_edges == {<<node, selected>> :
                               node \in {nb \in node_to_neighbours[selected] :
                                            nb \in Range(ordered)}}
           open1    == open_edges \ closed_edges
           a == _get_total_crossings(ordered \o <<selected>> \o rest, closed_edges, open1)
           b == _get_total_crossings(<<selected>> \o ordered \o rest, closed_edges, open1)
           placed   == IF a < b THEN Append(ordered, selected)
                       ELSE <<selected>> \o ordered
       IN  /\ remaining' = rest
           /\ ordered' = placed
           /\ open_edges' = open1 \cup
                  {<<selected, node>> :
                      node \in {nb \in node_to_neighbours[selected] :
                                   nb \notin Range(placed)}}
    /\ UNCHANGED <<node_to_neighbours, keys, entry, max_iterations, cpc, start_order,
                   node_order, best_order, total_crossings, minimum_crossings,
                   previous_best, iteration, pass_nodes, upos, ii, jj, warned>>

\* _initialize_node_order returns; _reduce_crossings hands the order to
\* _optimize_node_order.
InitializeReturn ==
    /\ UNCHANGED circOther
    /\ cpc = "initialize"
    /\ remaining = <<>>
    /\ start_order' = ordered
    /\ cpc' = "optimize"
    /\ UNCHANGED <<node_to_neighbours, keys, entry, max_iterations, ordered, remaining,
                   open_edges, node_order, best_order, total_crossings,
                   minimum_crossings, previous_best, iteration, pass_nodes, upos, ii,
                   jj, warned>>

\* _optimize_node_order up to the first pass: the crossings of the start order.
OptimizeEnter ==
    /\ UNCHANGED circOther
    /\ cpc = "optimize"
    /\ node_order' = start_order
    /\ total_crossings' =
           LET und == UndirectedEdges(node_to_neighbours, keys)
           IN  _get_total_crossings(start_order, und, und)
    /\ iteration' = 0
    /\ cpc' = "pass"
    /\ UNCHANGED <<node_to_neighbours, keys, entry, max_iterations, ordered, remaining,
                   open_edges, start_order, best_order, minimum_crossings,
                   previous_best, pass_nodes, upos, ii, jj, warned>>

\* Head of the body of `for iteration in range(max_iterations)`.
PassBegin ==
    /\ UNCHANGED circOther
    /\ cpc = "pass"
    /\ previous_best' = total_crossings
    /\ pass_nodes' = node_order
    /\ upos' = 1
    /\ cpc' = "node"
    /\ UNCHANGED <<node_to_neighbours, keys, entry, max_iterations, ordered, remaining,
                   open_edges, start_order, node_order, best_order, total_crossings,
                   minimum_crossings, iteration, ii, jj, warned>>

\* Head of the body of `for u in node_order.copy()`.
SiftBegin ==
    /\ UNCHANGED circOther
    /\ cpc = "node"
    /\ upos <= Len(pass_nodes)
    /\ best_order' = node_order
    /\ minimum_crossings' = total_crossings
    /\ ii' = IndexOf(node_order, pass_nodes[upos])
    /\ jj' = IndexOf(node_order, pass_nodes[upos]) + 1
    /\ cpc' = "swap"
    /\ UNCHANGED <<node_to_neighbours, keys, entry, max_iterations, ordered, remaining,
                   open_edges, start_order, node_order, total_crossings, previous_best,
                   iteration, pass_nodes, upos, warned>>

\* The order after the swap of the inner loop body.
SwappedOrder(order, u, v) == _swap_values(order, u, v)

\* The count after the swap: total_crossings - cuv + cvu.
UpdatedCrossings(total, cuv, cvu) == total - cuv + cvu

\* Whether the swapped order replaces best_order.
IsImprovement(total, minimum) == total < minimum

\* One iteration of `for jj in range(ii+1, ii+total_nodes)`.
SiftSwap ==
    /\ UNCHANGED circOther
    /\ cpc = "swap"
    /\ jj < ii + Len(node_order)
    /\ LET u   == pass_nodes[upos]
           v   == node_order[(jj % Len(node_order)) + 1]
           eu  == NodeToEdges(node_to_neighbours, u)
           ev  == NodeToEdges(node_to_neighbours, v)
           cuv == _get_total_crossings(node_order, eu, ev)
           swapped == SwappedOrder(node_order, u, v)
           cvu == _get_total_crossings(swapped, eu, ev)
           total == UpdatedCrossings(total_crossings, cuv, cvu)
       IN  /\ node_order' = swapped
           /\ total_crossings' = total
           /\ IF IsImprovement(total, minimum_crossings)
              THEN /\ best_order' = swapped
                   /\ minimum_crossings' = total
              ELSE UNCHANGED <<best_order, minimum_crossings>>
    /\ jj' = jj + 1
    /\ UNCHANGED <<node_to_neighbours, keys, entry, max_iterations, cpc, ordered,
                   remaining, open_edges, start_order, previous_best, iteration,
                   pass_nodes, upos, ii, warned>>

\* End of the inner loop: node_order = best_order; total_crossings = minimum_crossings.
SiftEnd ==
    /\ UNCHANGED circOther
    /\ cpc = "swap"
    /\ jj >= ii + Len(node_order)
    /\ node_order' = best_order
    /\ total_crossings' = minimum_crossings
    /\ upos' = upos + 1
    /\ cpc' = "node"
    /\ UNCHANGED <<node_to_neighbours, keys, entry, max_iterations, ordered, remaining,
                   open_edges, start_order, best_order, minimum_crossings,
                   previous_best, iteration, pass_nodes, ii, jj, warned>>

\* End of a pass: break without improvement, else the next pass while the range
\* lasts; after the loop the warning depends on the last value of `iteration`.
PassEnd ==
    /\ UNCHANGED circOther
    /\ cpc = "node"
    /\ upos > Len(pass_nodes)
    /\ IF previous_best - total_crossings # 0 /\ iteration + 1 < max_iterations
       THEN /\ iteration' = iteration + 1
            /\ cpc' = "pass"
            /\ UNCHANGED warned
       ELSE /\ warned' = (iteration + 1 = max_iterations)
            /\ cpc' = "done"
            /\ UNCHANGED iteration
    /\ UNCHANGED <<node_to_neighbours, keys, entry, max_iterations, ordered, remaining,
                   open_edges, start_order, node_order, best_order, total_crossings,
                   minimum_crossings, previous_best, pass_nodes, upos, ii, jj>>

CircNext ==
    \/ InitializeStep
    \/ InitializeReturn
    \/ OptimizeEnter
    \/ PassBegin
    \/ SiftBegin
    \/ SiftSwap
    \/ SiftEnd
    \/ PassEnd

\* No call of Part II in progress.
DecIdle ==
    /\ d_which = "none"
    /\ d_kind = "none"
    /\ d_edges = {}
    /\ d_nodes = {}
    /\ d_origin = [x |-> 0, y |-> 0]
    /\ d_scale = [x |-> 1, y |-> 1]
    /\ dpc = "idle"
    /\ components = <<>>
    /\ bboxes = <<>>
    /\ bbox_den = [x |-> 1, y |-> 1]
    /\ d_idx = 0
    /\ calls = <<>>
    /\ d_positions = <<>>
    /\ d_den = [x |-> 1, y |-> 1]
    /\ d_written = <<>>
    /\ d_outcome = "none"

InitCirc == CircInit /\ DecIdle /\ FrIdle /\ RouteIdle /\ ParseIdle /\ BundleIdle /\ StochIdle

SpecCirc == InitCirc /\ [][CircNext]_vars

\* ------------------------------------------------------------------------
\* Part I: properties
\* ------------------------------------------------------------------------

\* The index pairs of two edges strictly interleave walking around the circle.
Interleave(order, e1, e2) ==
    LET s1 == Min(EdgeIndices(order, e1))
        t1 == Max(EdgeIndices(order, e1))
        s2 == Min(EdgeIndices(order, e2))
        t2 == Max(EdgeIndices(order, e2))
    IN  \/ (s1 < s2 /\ s2 < t1 /\ t1 < t2)
        \/ (s2 < s1 /\ s1 < t2 /\ t2 < t1)

\* The undirected edges of the adjacency list, each as the pair (smaller, larger).
GraphEdges(n2n) == {e \in (DOMAIN n2n) \X (DOMAIN n2n) : e[1] < e[2] /\ e[2] \in n2n[e[1]]}

\* The number of unordered pairs of edges that cross in `order`.
EdgeCrossings(order, n2n) ==
    Cardinality({p \in GraphEdges(n2n) \X GraphEdges(n2n) :
                    /\ p[1][1] < p[2][1]
                    /\ Interleave(order, p[1], p[2])})

IsCycle4Graph(n2n) ==
    /\ Cardinality(DOMAIN n2n) = 4
    /\ \A v \in DOMAIN n2n : Cardinality(n2n[v]) = 2
    /\ \A v \in DOMAIN n2n : \A w \in DOMAIN n2n : (w # v /\ w \notin n2n[v]) => n2n[w] = n2n[v]

\* C1: _reduce_crossings on a 4-node cycle returns an order without edge
\* crossings, for every iteration order of the adjacency list.
C1_Cycle4ZeroCrossings ==
    (entry = "reduce" /\ cpc = "done" /\ IsCycle4Graph(node_to_neighbours))
        => EdgeCrossings(node_order, node_to_neighbours) = 0

\* C1 witness: a 4-cycle whose key order has a crossing has been reduced.
C1_Witness ==
    /\ entry = "reduce"
    /\ cpc = "done"
    /\ IsCycle4Graph(node_to_neighbours)
    /\ EdgeCrossings(keys, node_to_neighbours) > 0
    /\ EdgeCrossings(node_order, node_to_neighbours) = 0

\* The directed edges the crossing test is called on.
DirectedEdges(n2n) == UNION {NodeToEdges(n2n, v) : v \in DOMAIN n2n}

\* C2: for every node order and every two edges with four distinct endpoints,
\* _is_cross is true exactly when the index pairs strictly interleave (in
\* either of the two ways), so exchanging the edges does not change the result.
C2_IsCrossIffInterleave ==
    (cpc \in {"pass", "node", "swap", "done"}) =>
        \A e1 \in DirectedEdges(node_to_neighbours) :
            \A e2 \in DirectedEdges(node_to_neighbours) :
                Cardinality({e1[1], e1[2], e2[1], e2[2]}) = 4 =>
                    /\ _is_cross(node_order, e1, e2) = Interleave(node_order, e1, e2)
                    /\ _is_cross(node_order, e1, e2) = _is_cross(node_order, e2, e1)

\* ========================================================================
\* Part II  multi-component handling and bounding-box packing
\*          (_handle_multiple_components, get_layout_for_multiple_components,
\*          _get_component_bboxes, _rescale_bboxes_to_canvas in
\*          _node_layout.py; _handle_multiple_components and
\*          _get_layout_for_multiple_components in _edge_layout.py).
\* ========================================================================

\* Largest number of components (or unconnected nodes) of an input graph.
MaxComponents == 2

\* Positions inside a frame are drawn at the multiples of 1/RelDen of its scale.
RelDen == 2

\* The input graphs are put together from these pieces, on consecutive node
\* identifiers: U an unconnected node (listed in `nodes` only), L a node with a
\* self-loop, E an edge, B an edge with its reverse, T a directed triangle.
Shapes == {"U", "L", "E", "B", "T"}

ShapeSize(sh) == IF sh \in {"U", "L"} THEN 1 ELSE IF sh \in {"E", "B"} THEN 2 ELSE 3

ShapeEdges(sh, a) ==
    CASE sh = "U" -> {}
      [] sh = "L" -> {<<a, a>>}
      [] sh = "E" -> {<<a, a + 1>>}
      [] sh = "B" -> {<<a, a + 1>>, <<a + 1, a>>}
      [] sh = "T" -> {<<a, a + 1>>, <<a + 1, a + 2>>, <<a + 2, a>>}

RECURSIVE ShapeOffset(_, _)
ShapeOffset(shapes, i) ==
    IF i = 1 THEN 1 ELSE ShapeOffset(shapes, i - 1) + ShapeSize(shapes[i - 1])

InputEdges(shapes) ==
    UNION {ShapeEdges(shapes[i], ShapeOffset(shapes, i)) : i \in DOMAIN shapes}

InputNodes(shapes) == 1..(ShapeOffset(shapes, Len(shapes) + 1) - 1)

HasUnconnected(shapes) == \E i \in DOMAIN shapes : shapes[i] = "U"

ShapeSeqs == UNION {[1..k -> Shapes] : k \in 0..MaxComponents}

Canvases ==
    {[origin |-> [x |-> 0, y |-> 0], scale |-> [x |-> 1, y |-> 1]],
     [origin |-> [x |-> 1, y |-> 2], scale |-> [x |-> 2, y |-> 3]]}

\* ------------------------------------------------------------------------
\* Part II: helpers of _utils.py
\* ------------------------------------------------------------------------

\* _get_unique_nodes(edges)
UniqueNodes(edges) == {e[1] : e \in edges} \cup {e[2] : e \in edges}

\* _get_connected_components(adjacency_list): the maximal sets of nodes that
\* are connected under the undirected reading of the edges.
ConnectedComponents(edges) ==
    LET nodes == UniqueNodes(edges)
        adj   == EdgeListToAdjacencyList(edges, nodes)
    IN  {Reachable(adj, {v}, {}) : v \in nodes}

\* _get_subgraph(edges, nodes)
GetSubgraph(edges, nodes) == {e \in edges : e[1] \in nodes /\ e[2] \in nodes}

\* A set of disjoint sets as a sequence, by least member (the order in which
\* the components are met).
RECURSIVE SortByMin(_)
SortByMin(S) ==
    IF S = {} THEN <<>>
    ELSE LET c == CHOOSE c \in S : \A d \in S : Min(c) <= Min(d)
         IN  <<c>> \o SortByMin(S \ {c})

\* ------------------------------------------------------------------------
\* Part II: the bounding-box packer
\* ------------------------------------------------------------------------

\* Fixed-point unit of the relative box dimensions: 1/FixedPoint.
FixedPoint == 1000

\* n ** 0.8 in units of 1/FixedPoint, rounded down (power=0.8 of
\* _get_component_bboxes).
PowerTable == <<1000, 1741, 2408, 3031, 3623, 4192, 4743, 5278, 5799>>

\* _get_bbox_dimensions(n, power): (n**power, n**power)
_get_bbox_dimensions(n) == [w |-> PowerTable[n], h |-> PowerTable[n]]

\* pad_by = 0.05, in percent.
PadByPercent == 5

\* scalar = 20
Scalar == 20

\* width + pad_x with pad_x = pad_by * maximum width, in units of
\* 1/(100 * FixedPoint).
PaddedDimension(d, maximum) == 100 * d + PadByPercent * maximum

\* Mutation of IntegerDimension: the padding is left out.
IntegerDimension_NoPadding(d, maximum) == (Scalar * 100 * d) \div (100 * FixedPoint)

\* int(scalar * width) of the padded width.
IntegerDimension(d, maximum) == (Scalar * PaddedDimension(d, maximum)) \div (100 * FixedPoint)

SeqMax(q) == Max({q[i] : i \in DOMAIN q})

SeqMin(q) == Min({q[i] : i \in DOMAIN q})

\* integer_dimensions
IntegerDimensions(comps) ==
    LET rel == [i \in DOMAIN comps |-> _get_bbox_dimensions(Cardinality(comps[i]))]
        maxw == SeqMax([i \in DOMAIN rel |-> rel[i].w])
        maxh == SeqMax([i \in DOMAIN rel |-> rel[i].h])
    IN  [i \in DOMAIN comps |-> [w |-> IntegerDimension(rel[i].w, maxw),
                                 h |-> IntegerDimension(rel[i].h, maxh)]]

Overlap(a, sa, b, sb) ==
    /\ a.x < b.x + sb.w
    /\ b.x < a.x + sa.w
    /\ a.y < b.y + sb.h
    /\ b.y < a.y + sa.h

\* Sums of the entries of q at some of the indices I.
SubsetSums(q, I) ==
    LET RECURSIVE Sum(_)
        Sum(J) == IF J = {} THEN 0
                  ELSE LET i == CHOOSE i \in J : TRUE IN q[i] + Sum(J \ {i})
    IN  {Sum(J) : J \in SUBSET I}

\* The corners rectangle i can have when it lies against the left border or
\* the right side of a row of other rectangles, and on the bottom border or on
\* top of a pile of other rectangles.
Corners(sizes, i) ==
    [x : SubsetSums([j \in DOMAIN sizes |-> sizes[j].w], DOMAIN sizes \ {i}),
     y : SubsetSums([j \in DOMAIN sizes |-> sizes[j].h], DOMAIN sizes \ {i})]

\* Corners of the first k rectangles at which no two of them overlap.
RECURSIVE PartialPlacements(_, _)
PartialPlacements(sizes, k) ==
    IF k = 0 THEN {<<>>}
    ELSE {Append(pc[1], pc[2]) :
             pc \in {qc \in PartialPlacements(sizes, k - 1) \X Corners(sizes, k) :
                        \A j \in 1..(k - 1) :
                            ~Overlap(qc[2], sizes[k], qc[1][j], sizes[j])}}

\* rpack.pack(sizes): lower-left corners at which the rectangles do not
\* overlap. The library's heuristic is not part of the repository; every
\* bottom-left justified placement is taken as a possible result: each
\* rectangle lies against the left border or against the right side of another
\* rectangle, and on the bottom border or on top of another rectangle.
PackPlacements(sizes) ==
    LET I == DOMAIN sizes
    IN  {pl \in PartialPlacements(sizes, Len(sizes)) :
            /\ \A i \in I :
                   \/ pl[i].x = 0
                   \/ \E j \in I \ {i} :
                          /\ pl[i].x = pl[j].x + sizes[j].w
                          /\ pl[i].y < pl[j].y + sizes[j].h
                          /\ pl[j].y < pl[i].y + sizes[i].h
            /\ \A i \in I :
                   \/ pl[i].y = 0
                   \/ \E j \in I \ {i} :
                          /\ pl[i].y = pl[j].y + sizes[j].h
                          /\ pl[i].x < pl[j].x + sizes[j].w
                          /\ pl[j].x < pl[i].x + sizes[i].w}

\* bboxes = [(x, y, scalar*width, scalar*height) ...] with the relative (not
\* padded) dimensions, in units of 1/FixedPoint.
UnscaledBboxes(comps, origins) ==
    [i \in DOMAIN comps |->
        [x |-> FixedPoint * origins[i].x,
         y |-> FixedPoint * origins[i].y,
         w |-> Scalar * _get_bbox_dimensions(Cardinality(comps[i])).w,
         h |-> Scalar * _get_bbox_dimensions(Cardinality(comps[i])).h]]

\* _rescale_bboxes_to_canvas(bboxes, origin, scale). The division by the total
\* width and height is kept as the denominator `den` of all results.
_rescale_bboxes_to_canvas(bb, origin, scale) ==
    LET min_x == SeqMin([i \in DOMAIN bb |-> bb[i].x])
        min_y == SeqMin([i \in DOMAIN bb |-> bb[i].y])
        total_width  == SeqMax([i \in DOMAIN bb |-> bb[i].x + bb[i].w]) - min_x
        total_height == SeqMax([i \in DOMAIN bb |-> bb[i].y + bb[i].h]) - min_y
    IN  [boxes |-> [i \in DOMAIN bb |->
                       [x |-> (bb[i].x - min_x) * scale.x,
                        y |-> (bb[i].y - min_y) * scale.y,
                        w |-> bb[i].w * scale.x,
                        h |-> bb[i].h * scale.y]],
         den |-> [x |-> total_width, y |-> total_height]]

\* _get_component_bboxes(components, origin, scale) for the placement `origins`
\* that pack returned.
_get_component_bboxes(comps, origins, origin, scale) ==
    _rescale_bboxes_to_canvas(UnscaledBboxes(comps, origins), origin, scale)

\* ------------------------------------------------------------------------
\* Part II: the wrapped layout functions
\* ------------------------------------------------------------------------

RECURSIVE SetToSeq(_)
SetToSeq(S) ==
    IF S = {} THEN <<>>
    ELSE LET x == CHOOSE x \in S : TRUE IN <<x>> \o SetToSeq(S \ {x})

\* Relative positions (in units of 1/RelDen of the scale) a layout can return:
\* get_random_layout draws np.random.rand(2) from [0, 1); the other layouts
\* reach the far border of their frame as well.
RelChoices(kind) == IF kind = "random" THEN 0..(RelDen - 1) ELSE 0..RelDen

\* origin + (r / RelDen) * scale for every node, as numerators over
\* 2 * RelDen * den (origin and scale being numerators over den).
LayoutPositions(nodes, origin, scale, r) ==
    [n \in nodes |-> [x |-> 2 * RelDen * origin.x + 2 * r * scale.x,
                      y |-> 2 * RelDen * origin.y + 2 * r * scale.y]]

\* (bbox[0] + 0.5 * bbox[2], bbox[1] + 0.5 * bbox[3])
BboxCentre(bbox) ==
    [x |-> 2 * RelDen * bbox.x + RelDen * bbox.w,
     y |-> 2 * RelDen * bbox.y + RelDen * bbox.h]

\* assert len(edges) > 0 of get_fruchterman_reingold_layout
RaisesOnEmptyEdges(kind, edges) == kind = "fr" /\ edges = {}

\* The components the wrapper of _node_layout.py iterates over: those of the
\* edges, then one per unconnected node of `nodes`.
NodeComponents(edges, nodes) ==
    SortByMin(ConnectedComponents(edges))
        \o SetToSeq({{n} : n \in nodes \ UniqueNodes(edges)})

\* Mutation of ComponentEdges: the edges are not filtered by component.
ComponentEdges_Unfiltered(edges, component) == edges

\* component_edges of _get_layout_for_multiple_components (_edge_layout.py)
ComponentEdges(edges, component) ==
    {e \in edges : e[1] \in component /\ e[2] \in component}

CallRecord(edges, nodes, origin, scale, den) ==
    [edges |-> edges, nodes |-> nodes, origin |-> origin, scale |-> scale, den |-> den]

Unit == [x |-> 1, y |-> 1]

\* ------------------------------------------------------------------------
\* Part II: initial states and steps
\* ------------------------------------------------------------------------

DecInit ==
    \E shapes \in ShapeSeqs :
        \E canvas \in Canvases :
            /\ d_which \in {"node", "edge"}
            /\ d_kind \in (IF d_which = "node" THEN {"fr", "random", "circular"}
                           ELSE {"edge_paths"})
            /\ d_edges = InputEdges(shapes)
            /\ d_nodes \in (IF d_which = "edge" \/ HasUnconnected(shapes)
                            THEN {InputNodes(shapes)}
                            ELSE {{}, InputNodes(shapes)})
            /\ d_origin = canvas.origin
            /\ d_scale = canvas.scale
            /\ dpc = "call"
            /\ components = <<>>
            /\ bboxes = <<>>
            /\ bbox_den = Unit
            /\ d_idx = 0
            /\ calls = <<>>
            /\ d_positions = <<>>
            /\ d_den = Unit
            /\ d_written = <<>>
            /\ d_outcome = "running"

\* wrapped_layout_function of _node_layout.py with at most one component:
\* return layout_function(edges, *args, **kwargs)
NodeWrapperSingle ==
    /\ UNCHANGED decOther
    /\ dpc = "call"
    /\ d_which = "node"
    /\ Len(NodeComponents(d_edges, d_nodes)) <= 1
    /\ components' = NodeComponents(d_edges, d_nodes)
    /\ calls' = <<CallRecord(d_edges, {}, d_origin, d_scale, Unit)>>
    /\ IF RaisesOnEmptyEdges(d_kind, d_edges)
       THEN /\ d_outcome' = "AssertionError"
            /\ UNCHANGED <<d_positions, d_written, d_den>>
       ELSE /\ \E r \in RelChoices(d_kind) :
                   d_positions' = LayoutPositions(UniqueNodes(d_edges), d_origin, d_scale, r)
            /\ d_written' = SetToSeq(UniqueNodes(d_edges))
            /\ d_den' = [x |-> 2 * RelDen, y |-> 2 * RelDen]
            /\ d_outcome' = "returned"
    /\ dpc' = "done"
    /\ UNCHANGED <<d_which, d_kind, d_edges, d_nodes, d_origin, d_scale, bboxes, bbox_den,
                   d_idx>>

\* wrapped_layout_function of _node_layout.py with several components, and
\* get_layout_for_multiple_components up to its loop.
NodeWrapperMulti ==
    /\ UNCHANGED decOther
    /\ dpc = "call"
    /\ d_which = "node"
    /\ Len(NodeComponents(d_edges, d_nodes)) > 1
    /\ components' = NodeComponents(d_edges, d_nodes)
    /\ \E origins \in PackPlacements(IntegerDimensions(NodeComponents(d_edges, d_nodes))) :
           LET res == _get_component_bboxes(NodeComponents(d_edges, d_nodes), origins,
                                            d_origin, d_scale)
           IN  /\ bboxes' = res.boxes
               /\ bbox_den' = res.den
               /\ d_den' = [x |-> 2 * RelDen * res.den.x, y |-> 2 * RelDen * res.den.y]
    /\ d_idx' = 1
    /\ dpc' = "components"
    /\ UNCHANGED <<d_which, d_kind, d_edges, d_nodes, d_origin, d_scale, calls,
                   d_positions, d_written, d_outcome>>

\* One iteration of the loop of get_layout_for_multiple_components.
NodeComponentStep ==
    /\ UNCHANGED decOther
    /\ dpc = "components"
    /\ d_which = "node"
    /\ d_idx <= Len(components)
    /\ LET component == components[d_idx]
           bbox      == bboxes[d_idx]
           subgraph  == GetSubgraph(d_edges, component)
           origin    == [x |-> bbox.x, y |-> bbox.y]
           scale     == [x |-> bbox.w, y |-> bbox.h]
       IN  IF Cardinality(component) > 1
           THEN /\ calls' = Append(calls, CallRecord(subgraph, {}, origin, scale, bbox_den))
                /\ \E r \in RelChoices(d_kind) :
                       d_positions' =
                           LayoutPositions(UniqueNodes(subgraph), origin, scale, r)
                               @@ d_positions
                /\ d_written' = d_written \o SetToSeq(UniqueNodes(subgraph))
           ELSE /\ d_positions' =
                       [n \in component |-> BboxCentre(bbox)] @@ d_positions
                /\ d_written' = d_written \o SetToSeq(component)
                /\ UNCHANGED calls
    /\ d_idx' = d_idx + 1
    /\ UNCHANGED <<d_which, d_kind, d_edges, d_nodes, d_origin, d_scale, dpc, components,
                   bboxes, bbox_den, d_den, d_outcome>>

\* return node_positions
NodeMultiReturn ==
    /\ UNCHANGED decOther
    /\ dpc = "components"
    /\ d_which = "node"
    /\ d_idx > Len(components)
    /\ d_outcome' = "returned"
    /\ dpc' = "done"
    /\ UNCHANGED <<d_which, d_kind, d_edges, d_nodes, d_origin, d_scale, components,
                   bboxes, bbox_den, d_idx, calls, d_positions, d_den, d_written>>

\* The entries a wrapped edge layout returns: one per edge it is given.
EdgePaths(edges) == [e \in edges |-> "path"]

\* wrapped_layout_function of _edge_layout.py with at most one component:
\* return layout_function(edges, node_positions, *args, **kwargs)
EdgeWrapperSingle ==
    /\ UNCHANGED decOther
    /\ dpc = "call"
    /\ d_which = "edge"
    /\ Cardinality(ConnectedComponents(d_edges)) <= 1
    /\ components' = SortByMin(ConnectedComponents(d_edges))
    /\ calls' = <<CallRecord(d_edges, d_nodes, d_origin, d_scale, Unit)>>
    /\ d_positions' = EdgePaths(d_edges)
    /\ d_written' = SetToSeq(d_edges)
    /\ d_outcome' = "returned"
    /\ dpc' = "done"
    /\ UNCHANGED <<d_which, d_kind, d_edges, d_nodes, d_origin, d_scale, bboxes, bbox_den,
                   d_idx, d_den>>

\* wrapped_layout_function of _edge_layout.py with several components.
EdgeWrapperMulti ==
    /\ UNCHANGED decOther
    /\ dpc = "call"
    /\ d_which = "edge"
    /\ Cardinality(ConnectedComponents(d_edges)) > 1
    /\ components' = SortByMin(ConnectedComponents(d_edges))
    /\ d_idx' = 1
    /\ dpc' = "components"
    /\ UNCHANGED <<d_which, d_kind, d_edges, d_nodes, d_origin, d_scale, bboxes, bbox_den,
                   calls, d_positions, d_den, d_written, d_outcome>>

\* One iteration of the loop of _get_layout_for_multiple_components.
EdgeComponentStep ==
    /\ UNCHANGED decOther
    /\ dpc = "components"
    /\ d_which = "edge"
    /\ d_idx <= Len(components)
    /\ LET component       == components[d_idx]
           component_edges == ComponentEdges(d_edges, component)
           component_nodes == {n \in d_nodes : n \in component}
       IN  /\ calls' = Append(calls, CallRecord(component_edges, component_nodes,
                                                d_origin, d_scale, Unit))
           /\ d_positions' = EdgePaths(component_edges) @@ d_positions
           /\ d_written' = d_written \o SetToSeq(component_edges)
    /\ d_idx' = d_idx + 1
    /\ UNCHANGED <<d_which, d_kind, d_edges, d_nodes, d_origin, d_scale, dpc, components,
                   bboxes, bbox_den, d_den, d_outcome>>

\* return edge_paths
EdgeMultiReturn ==
    /\ UNCHANGED decOther
    /\ dpc = "components"
    /\ d_which = "edge"
    /\ d_idx > Len(components)
    /\ d_outcome' = "returned"
    /\ dpc' = "done"
    /\ UNCHANGED <<d_which, d_kind, d_edges, d_nodes, d_origin, d_scale, components,
                   bboxes, bbox_den, d_idx, calls, d_positions, d_den, d_written>>

\* No call of Part I in progress.
CircIdle ==
    /\ node_to_neighbours = <<>>
    /\ keys = NoOrder
    /\ entry = "none"
    /\ max_iterations = 0
    /\ cpc = "idle"
    /\ ordered = NoOrder
    /\ remaining = NoOrder
    /\ open_edges = {}
    /\ start_order = NoOrder
    /\ node_order = NoOrder
    /\ best_order = NoOrder
    /\ total_crossings = 0
    /\ minimum_crossings = 0
    /\ previous_best = 0
    /\ iteration = 0
    /\ pass_nodes = NoOrder
    /\ upos = 0
    /\ ii = 0
    /\ jj = 0
    /\ warned = FALSE

DecNext ==
    \/ NodeWrapperSingle
    \/ NodeWrapperMulti
    \/ NodeComponentStep
    \/ NodeMultiReturn
    \/ EdgeWrapperSingle
    \/ EdgeWrapperMulti
    \/ EdgeComponentStep
    \/ EdgeMultiReturn

InitDecomp == DecInit /\ CircIdle /\ FrIdle /\ RouteIdle /\ ParseIdle /\ BundleIdle /\ StochIdle

SpecDecomp == InitDecomp /\ [][DecNext]_vars

\* ------------------------------------------------------------------------
\* Part II: properties
\* ------------------------------------------------------------------------

NodeCallReturned == d_which = "node" /\ dpc = "done" /\ d_outcome = "returned"

\* C3: every node layout, run directly or through the multi-component
\* wrapper, returns a mapping whose key set is the input node set: the nodes
\* of the edges plus the supplied unconnected nodes.
C3_KeySetEqualsInputNodes ==
    NodeCallReturned => DOMAIN d_positions = UniqueNodes(d_edges) \cup d_nodes

\* C6: every call of get_fruchterman_reingold_layout with an empty edge list
\* raises the empty-edge assertion and returns no positions, also when a node
\* list of unconnected nodes is supplied.
C6_EmptyEdgesAlwaysRaise ==
    (d_which = "node" /\ d_kind = "fr" /\ d_edges = {} /\ dpc = "done")
        => (d_outcome = "AssertionError" /\ DOMAIN d_positions = {})

\* The interiors of two boxes meet.
BoxesOverlap(a, b) ==
    /\ a.x < b.x + b.w
    /\ b.x < a.x + a.w
    /\ a.y < b.y + b.h
    /\ b.y < a.y + a.h

\* Position p (numerators over 2 * RelDen * bbox_den) lies in bbox
\* (numerators over bbox_den), borders included.
InsideBbox(p, bbox) ==
    /\ 2 * RelDen * bbox.x <= p.x
    /\ p.x <= 2 * RelDen * (bbox.x + bbox.w)
    /\ 2 * RelDen * bbox.y <= p.y
    /\ p.y <= 2 * RelDen * (bbox.y + bbox.h)

C8_BoxesFillCanvas ==
    (d_which = "node" /\ dpc \in {"components", "done"} /\ Len(bboxes) > 0) =>
        LET min_x == SeqMin([i \in DOMAIN bboxes |-> bboxes[i].x])
            min_y == SeqMin([i \in DOMAIN bboxes |-> bboxes[i].y])
            max_x == SeqMax([i \in DOMAIN bboxes |-> bboxes[i].x + bboxes[i].w])
            max_y == SeqMax([i \in DOMAIN bboxes |-> bboxes[i].y + bboxes[i].h])
        IN  /\ min_x = d_origin.x * bbox_den.x
            /\ min_y = d_origin.y * bbox_den.y
            /\ max_x - min_x = d_scale.x * bbox_den.x
            /\ max_y - min_y = d_scale.y * bbox_den.y

DecomposerReturned == dpc = "done" /\ d_outcome = "returned"

\* The indices of the components with more than one node.
MultiNodeIndices == {i \in DOMAIN components : Cardinality(components[i]) > 1}

\* The calls of the inner algorithm are, one to one, the components `indices`,
\* each call on exactly the edges with both endpoints in its component.
CalledOncePer(indices) ==
    \E f \in [DOMAIN calls -> indices] :
        /\ \A k \in DOMAIN calls : \A l \in DOMAIN calls : k # l => f[k] # f[l]
        /\ \A i \in indices : \E k \in DOMAIN calls : f[k] = i
        /\ \A k \in DOMAIN calls :
               calls[k].edges = {e \in d_edges : e[1] \in components[f[k]]
                                                 /\ e[2] \in components[f[k]]}

CallEdgesDisjoint ==
    \A k \in DOMAIN calls : \A l \in DOMAIN calls :
        k # l => calls[k].edges \cap calls[l].edges = {}

CallEdgesUnion == UNION {calls[k].edges : k \in DOMAIN calls}

NoKeyWrittenTwice ==
    \A i \in DOMAIN d_written : \A j \in DOMAIN d_written : i # j => d_written[i] # d_written[j]

\* With at most one component: one call, on the full edge list, with the
\* origin and scale (and, for edge layouts, the node positions) of the caller.
SingleComponentDelegates ==
    (dpc = "done" /\ Len(components) <= 1) =>
        /\ Len(calls) = 1
        /\ calls[1].edges = d_edges
        /\ calls[1].origin = d_origin
        /\ calls[1].scale = d_scale
        /\ d_which = "edge" => calls[1].nodes = d_nodes

\* The self-loops of the single-node components.
IsolatedSelfLoops ==
    {e \in d_edges : e[1] = e[2] /\ \E i \in DOMAIN components : components[i] = {e[1]}}

Precision == 2

\* Coordinates are counted in units of 1/PosDen.
PosDen == 2

\* Largest total_iterations.
MaxTotalIterations == 2

\* 1.0, the default extent of the canvas.
One == PosDen

\* The least magnitude from which on not every coordinate is a floating-point
\* number.
Big == 2 ^ Precision

\* The spacing of the floating-point numbers around the magnitude x.
RECURSIVE Ulp(_, _)
Ulp(x, step) == IF x \div step < 2 ^ Precision THEN step ELSE Ulp(x, 2 * step)

\* Rounding of a magnitude to the nearest floating-point number, ties to the
\* even mantissa.
RoundMagnitude(x) ==
    LET step == Ulp(x, 1)
        q    == x \div step
        r    == x % step
    IN  IF 2 * r < step THEN q * step
        ELSE IF 2 * r > step THEN (q + 1) * step
        ELSE IF q % 2 = 0 THEN q * step
        ELSE (q + 1) * step

\* The floating-point result of an addition or subtraction whose exact result
\* is x.
Round(x) == IF x < 0 THEN 0 - RoundMagnitude(0 - x) ELSE RoundMagnitude(x)

\* ------------------------------------------------------------------------
\* Part III: inputs
\* ------------------------------------------------------------------------

\* The edge lists: none, a self-loop, an edge.
FrGraphs == {{}, {<<1, 1>>}, {<<1, 2>>}}

\* A node that occurs in no edge.
UnconnectedNodes == {3}

XChoices == {-1, 0, One, Big}

YChoices == {0, 1}

\* The positions supplied for a node of the edges.
FrPoints == [x : XChoices, y : YChoices]

\* The positions supplied for a node that occurs in no edge.
UnconnectedPoints == {[x |-> 0, y |-> 0], [x |-> Big, y |-> 1]}

PointChoices(n) == IF n \in UnconnectedNodes THEN UnconnectedPoints ELSE FrPoints

\* node_positions: None (the mapping without keys) or a mapping of some of the
\* nodes.
SuppliedPositions(edges) ==
    UNION {{f \in [D -> FrPoints \cup UnconnectedPoints] :
               \A n \in D : f[n] \in PointChoices(n)} :
           D \in SUBSET (UniqueNodes(edges) \cup UnconnectedNodes)}

\* fixed_nodes: None or one node of the graph.
FixedChoices(edges, positions) ==
    {{}} \cup {{n} : n \in UniqueNodes(edges) \cup DOMAIN positions}

Zeros == [x |-> 0, y |-> 0]

Ones == [x |-> One, y |-> One]

\* ------------------------------------------------------------------------
\* Part III: pure functions
\* ------------------------------------------------------------------------

\* origin when it is None: the minimum of the supplied positions and 0.
DefaultOrigin(positions) ==
    IF DOMAIN positions # {}
    THEN [x |-> Min({positions[n].x : n \in DOMAIN positions} \cup {0}),
          y |-> Min({positions[n].y : n \in DOMAIN positions} \cup {0})]
    ELSE Zeros

\* scale when it is None: the maximum of the supplied positions - origin and 1.
DefaultScale(positions, origin) ==
    IF DOMAIN positions # {}
    THEN [x |-> Max({Round(positions[n].x - origin.x) : n \in DOMAIN positions} \cup {One}),
          y |-> Max({Round(positions[n].y - origin.y) : n \in DOMAIN positions} \cup {One})]
    ELSE Ones

\* _is_within_bbox for one point
_is_within_bbox(point, origin, scale) ==
    LET minima == origin
        maxima == [x |-> Round(minima.x + scale.x), y |-> Round(minima.y + scale.y)]
    IN  /\ point.x >= minima.x
        /\ point.x <= maxima.x
        /\ point.y >= minima.y
        /\ point.y <= maxima.y

\* np.random.rand() * scale + origin along one axis, for the draws 0 and 1/2.
RandomCoords(o, s) == {Round(o + k) : k \in {0, s \div 2}}

RandomPoints(origin, scale) ==
    [x : RandomCoords(origin.x, scale.x), y : RandomCoords(origin.y, scale.y)]

\* is_mobile of one node
IsMobile(node, fixed_nodes) == node \notin fixed_nodes

\* Two nodes have the same position.
Coincident(positions) ==
    \E n \in DOMAIN positions : \E m \in DOMAIN positions :
        n # m /\ positions[n] = positions[m]

\* The displacements of one node in one iteration: the temperature limits
\* their length, here to one unit of the coordinates.
Steps == {d \in [x : {-1, 0, 1}, y : {-1, 0, 1}] : d.x * d.x + d.y * d.y <= 1}

\* The displacements of the mobile nodes that _fruchterman_reingold can
\* compute. Along an axis on which all nodes have the same coordinate every
\* force is zero, unless two nodes coincide and get a random difference.
Displacements(positions, mobile) ==
    {d \in [mobile -> Steps] :
        /\ (/\ ~Coincident(positions)
            /\ \A n \in DOMAIN positions : \A m \in DOMAIN positions :
                   positions[n].x = positions[m].x)
               => \A n \in mobile : d[n].x = 0
        /\ (/\ ~Coincident(positions)
            /\ \A n \in DOMAIN positions : \A m \in DOMAIN positions :
                   positions[n].y = positions[m].y)
               => \A n \in mobile : d[n].y = 0}

\* mobile_positions + displacement
_fruchterman_reingold(positions, mobile, displacement) ==
    [n \in mobile |-> [x |-> Round(positions[n].x + displacement[n].x),
                       y |-> Round(positions[n].y + displacement[n].y)]]

\* Positions that are returned as they are: numerators over 1.
Exact(positions) ==
    [n \in DOMAIN positions |->
        [x |-> positions[n].x, y |-> positions[n].y, dx |-> 1, dy |-> 1]]

\* _rescale_to_frame(node_positions, origin, scale): per axis
\* (p - min) / max(p - min) * scale + origin, kept as a numerator over the
\* denominator max(p - min); a denominator 0 is the division 0/0.
_rescale_to_frame(positions, origin, scale) ==
    LET min_x == Min({positions[n].x : n \in DOMAIN positions})
        min_y == Min({positions[n].y : n \in DOMAIN positions})
        max_x == Max({positions[n].x - min_x : n \in DOMAIN positions})
        max_y == Max({positions[n].y - min_y : n \in DOMAIN positions})
    IN  [n \in DOMAIN positions |->
            [x  |-> (positions[n].x - min_x) * scale.x + origin.x * max_x,
             y  |-> (positions[n].y - min_y) * scale.y + origin.y * max_y,
             dx |-> max_x,
             dy |-> max_y]]

\* Mutation of RescaleApplies: the positions are rescaled in every call.
RescaleApplies_Always(is_mobile) == TRUE

\* np.all(is_mobile)
RescaleApplies(is_mobile) == \A n \in DOMAIN is_mobile : is_mobile[n]

\* ------------------------------------------------------------------------
\* Part III: initial states and steps
\* ------------------------------------------------------------------------

FrInit ==
    /\ f_edges \in FrGraphs
    /\ f_given \in BOOLEAN
    /\ f_origin = Zeros
    /\ f_scale = Ones
    /\ f_supplied \in SuppliedPositions(f_edges)
    /\ f_node_positions = f_supplied
    /\ f_fixed \in FixedChoices(f_edges, f_supplied)
    /\ f_fixed_nodes = f_fixed
    /\ f_total_iterations = MaxTotalIterations
    /\ fpc = "call"
    /\ f_array = <<>>
    /\ f_is_mobile = <<>>
    /\ f_ii = 0
    /\ f_rescaled = FALSE
    /\ f_result = <<>>
    /\ f_error_nodes = {}
    /\ f_outcome = "running"
    /\ f_outside = {}
    /\ f_moved = {}

\* origin after the defaults
Origin(given, origin, positions) == IF given THEN origin ELSE DefaultOrigin(positions)

\* scale after the defaults
Scale(given, scale, positions, origin) ==
    IF given THEN scale ELSE DefaultScale(positions, origin)

\* The supplied positions that are not within the bbox.
InvalidNodes(positions, origin, scale) ==
    {n \in DOMAIN positions : ~_is_within_bbox(positions[n], origin, scale)}

\* assert len(edges) > 0
FrAssertionError ==
    /\ UNCHANGED frOther
    /\ UNCHANGED <<f_outside, f_moved>>
    /\ fpc = "call"
    /\ f_edges = {}
    /\ f_outcome' = "AssertionError"
    /\ fpc' = "done"
    /\ UNCHANGED <<f_edges, f_given, f_origin, f_scale, f_supplied, f_node_positions,
                   f_fixed, f_fixed_nodes, f_total_iterations, f_array, f_is_mobile, f_ii,
                   f_rescaled, f_result, f_error_nodes>>

\* The defaults of origin and scale, and the ValueError for supplied positions
\* that are not within the bbox.
FrValueError ==
    /\ UNCHANGED frOther
    /\ UNCHANGED <<f_outside, f_moved>>
    /\ fpc = "call"
    /\ f_edges # {}
    /\ LET origin == Origin(f_given, f_origin, f_supplied)
           scale  == Scale(f_given, f_scale, f_supplied, origin)
       IN  /\ InvalidNodes(f_supplied, origin, scale) # {}
           /\ f_origin' = origin
           /\ f_scale' = scale
           /\ f_error_nodes' = InvalidNodes(f_supplied, origin, scale)
    /\ f_outcome' = "ValueError"
    /\ fpc' = "done"
    /\ UNCHANGED <<f_edges, f_given, f_supplied, f_node_positions, f_fixed, f_fixed_nodes,
                   f_total_iterations, f_array, f_is_mobile, f_ii, f_rescaled, f_result>>

\* The defaults of origin and scale, the starting positions, unique_nodes and
\* is_mobile: the call up to the main loop.
FrSetup ==
    /\ UNCHANGED frOther
    /\ UNCHANGED <<f_outside, f_moved>>
    /\ fpc = "call"
    /\ f_edges # {}
    /\ LET origin      == Origin(f_given, f_origin, f_supplied)
           scale       == Scale(f_given, f_scale, f_supplied, origin)
           connected   == UniqueNodes(f_edges)
           missing     == connected \ DOMAIN f_supplied
           unconnected == DOMAIN f_supplied \ connected
       IN  /\ InvalidNodes(f_supplied, origin, scale) = {}
           /\ f_origin' = origin
           /\ f_scale' = scale
           /\ \E random \in [missing -> RandomPoints(origin, scale)] :
                  /\ f_array' = random @@ f_supplied
                  /\ f_node_positions' = IF DOMAIN f_supplied = {} THEN f_node_positions
                                         ELSE random @@ f_supplied
           /\ f_fixed_nodes' = f_fixed_nodes \cup unconnected
           /\ f_is_mobile' = [n \in connected \cup unconnected |->
                                 IsMobile(n, f_fixed_nodes \cup unconnected)]
    /\ f_ii' = 0
    /\ fpc' = "loop"
    /\ UNCHANGED <<f_edges, f_given, f_supplied, f_fixed, f_total_iterations, f_rescaled,
                   f_result, f_error_nodes, f_outcome>>

\* Mutation of IsValid: every candidate that is a number is taken.
IsValid_Unbounded(candidate, displacement, origin, scale) ==
    ~(displacement.x = 0 /\ displacement.y = 0)

\* is_valid for one mobile node: its candidate is a number within the bbox. A
\* displacement of length zero gives a candidate that is not a number.
IsValid(candidate, displacement, origin, scale) ==
    /\ ~(displacement.x = 0 /\ displacement.y = 0)
    /\ _is_within_bbox(candidate, origin, scale)

\* One iteration of the main loop: the candidate positions of all mobile
\* nodes are computed from the positions before the iteration, and the
\* candidates within the bbox are taken. With observed, the iteration also
\* records which candidates were outside the bbox and which nodes it has moved.
MainLoopIteration(observed) ==
    /\ UNCHANGED frOther
    /\ fpc = "loop"
    /\ f_ii < f_total_iterations
    /\ LET mobile == {n \in DOMAIN f_array : f_is_mobile[n]}
       IN  \E displacement \in Displacements(f_array, mobile) :
               LET candidate_positions == _fruchterman_reingold(f_array, mobile, displacement)
               IN  /\ f_array' =
                       [n \in DOMAIN f_array |->
                           IF /\ n \in mobile
                              /\ IsValid(candidate_positions[n], displacement[n],
                                         f_origin, f_scale)
                           THEN candidate_positions[n]
                           ELSE f_array[n]]
                   /\ f_outside' =
                       IF observed
                       THEN {n \in mobile :
                                /\ ~(displacement[n].x = 0 /\ displacement[n].y = 0)
                                /\ ~_is_within_bbox(candidate_positions[n], f_origin, f_scale)}
                       ELSE {}
    /\ f_moved' = IF observed
                  THEN {n \in DOMAIN f_array : f_array'[n] # f_array[n]}
                  ELSE {}
    /\ f_ii' = f_ii + 1
    /\ UNCHANGED <<f_edges, f_given, f_origin, f_scale, f_supplied, f_node_positions,
                   f_fixed, f_fixed_nodes, f_total_iterations, fpc, f_is_mobile, f_rescaled,
                   f_result, f_error_nodes, f_outcome>>

FrIterate == MainLoopIteration(FALSE)

\* The output: rescaled to the frame when every node is mobile.
FrReturn ==
    /\ UNCHANGED frOther
    /\ f_outside' = {}
    /\ f_moved' = {}
    /\ fpc = "loop"
    /\ f_ii = f_total_iterations
    /\ f_rescaled' = RescaleApplies(f_is_mobile)
    /\ f_result' = IF RescaleApplies(f_is_mobile)
                   THEN _rescale_to_frame(f_array, f_origin, f_scale)
                   ELSE Exact(f_array)
    /\ f_outcome' = "returned"
    /\ fpc' = "done"
    /\ UNCHANGED <<f_edges, f_given, f_origin, f_scale, f_supplied, f_node_positions,
                   f_fixed, f_fixed_nodes, f_total_iterations, f_array, f_is_mobile, f_ii,
                   f_error_nodes>>

FrNext ==
    \/ FrAssertionError
    \/ FrValueError
    \/ FrSetup
    \/ FrIterate
    \/ FrReturn

InitFR == FrInit /\ CircIdle /\ DecIdle /\ RouteIdle /\ ParseIdle /\ BundleIdle /\ StochIdle

SpecFR == InitFR /\ [][FrNext]_vars

\* The main loop alone, observed: the calls with a given bbox and supplied
\* positions.
LoopInit ==
    /\ FrInit
    /\ f_edges # {}
    /\ f_given
    /\ InvalidNodes(f_supplied, f_origin, f_scale) = {}

LoopIterate == MainLoopIteration(TRUE)

LoopNext ==
    \/ FrSetup
    \/ LoopIterate
    \/ FrReturn

InitLoop == LoopInit /\ CircIdle /\ DecIdle /\ RouteIdle /\ ParseIdle /\ BundleIdle /\ StochIdle

SpecLoop == InitLoop /\ [][LoopNext]_vars

\* ------------------------------------------------------------------------
\* Part III: properties
\* ------------------------------------------------------------------------

FrReturned == fpc = "done" /\ f_outcome = "returned"

\* The fixed nodes of the call for which a position was supplied.
SuppliedFixedNodes == f_fixed \cap DOMAIN f_supplied

WithinFrame(p, origin, scale) ==
    /\ p.dx > 0
    /\ p.dy > 0
    /\ origin.x * p.dx <= p.x
    /\ p.x <= (origin.x + scale.x) * p.dx
    /\ origin.y * p.dy <= p.y
    /\ p.y <= (origin.y + scale.y) * p.dy

\* C5: after a run with no fixed nodes, for every graph and every admissible
\* set of initial positions, every returned position lies within
\* [origin, origin + scale] in each coordinate.
C5_UnconstrainedPositionsWithinFrame ==
    (FrReturned /\ f_fixed = {}) =>
        \A n \in DOMAIN f_result : WithinFrame(f_result[n], f_origin, f_scale)

\* The supplied positions outside [origin, origin + scale].
OffendingNodes ==
    {n \in DOMAIN f_supplied :
        \/ f_supplied[n].x < f_origin.x
        \/ f_supplied[n].x > f_origin.x + f_scale.x
        \/ f_supplied[n].y < f_origin.y
        \/ f_supplied[n].y > f_origin.y + f_scale.y}

\* C10: with an explicit origin and scale and a supplied position outside
\* [origin, origin + scale] the call raises the ValueError, which names every
\* offending node, runs no iteration and returns nothing; with origin and
\* scale unset no supplied position is rejected.
C10_OutsidePositionsRejected ==
    /\ (fpc = "done" /\ f_given /\ f_edges # {} /\ OffendingNodes # {}) =>
           /\ f_outcome = "ValueError"
           /\ f_error_nodes = OffendingNodes
           /\ f_ii = 0
           /\ f_result = <<>>
    /\ (fpc = "done" /\ ~f_given) => f_outcome # "ValueError"

\* C11: a call leaves its inputs unchanged: on return the caller's
\* node_positions mapping has the keys and values it had at the call, and the
\* caller's fixed_nodes list has the members it had at the call.
C11_InputsUnchanged ==
    FrReturned =>
        /\ f_node_positions = f_supplied
        /\ f_fixed # {} => f_fixed_nodes = f_fixed

\* ========================================================================
\* Part IV  straight and self-loop edge paths (get_straight_edge_paths,
\*          _shift_edge, get_selfloop_paths, _get_selfloop_path).
\* ========================================================================

\* Largest configured edge width.
MaxWidth == 2

\* Largest selfloop_radius.
MaxRadius == 2

\* ------------------------------------------------------------------------
\* Part IV: inputs
\* ------------------------------------------------------------------------

\* The edges of the edge lists: the two directions of an edge and a self-loop.
RouteEdges == {<<1, 2>>, <<2, 1>>, <<1, 1>>}

\* The positions of node 1.
RoutePoints == {[x |-> 0, y |-> 0], [x |-> 1, y |-> 2]}

\* The position of node 2 relative to node 1. The lengths are whole numbers.
RouteOffsets ==
    {[x |-> 3, y |-> 4], [x |-> -4, y |-> 3], [x |-> 2, y |-> 0], [x |-> 0, y |-> -1],
     [x |-> 0, y |-> 0]}

\* node_positions of two nodes
TwoNodePositions ==
    {[n \in {1, 2} |-> IF n = 1 THEN p ELSE [x |-> p.x + d.x, y |-> p.y + d.y]] :
        p \in RoutePoints, d \in RouteOffsets}

\* node_positions of one node
OneNodePositions == {[n \in {1} |-> p] : p \in RoutePoints}

\* The canvas of the self-loop paths.
RouteCanvas == [origin |-> [x |-> 0, y |-> 0], scale |-> [x |-> 4, y |-> 4]]

\* ------------------------------------------------------------------------
\* Part IV: pure functions
\* ------------------------------------------------------------------------

\* np.linalg.norm(v), for the vectors whose length is a whole number.
Norm(v) ==
    LET bound == (IF v.x < 0 THEN 0 - v.x ELSE v.x) + (IF v.y < 0 THEN 0 - v.y ELSE v.y)
    IN  CHOOSE n \in 0..bound : n * n = v.x * v.x + v.y * v.y

\* Mutation of Delta2: the edge is shifted by its whole width.
Delta2_WholeWidth(width) == 0 - 2 * width

\* Twice delta = -0.5 * edge_width[(source, target)].
Delta2(width) == 0 - width

\* _shift_edge(x1, y1, x2, y2, delta) for delta = delta2 / 2: the two end
\* points as numerators over den = 2 * norm; den = 0 is the division by a
\* norm of zero.
_shift_edge(x1, y1, x2, y2, delta2) ==
    LET v     == [x |-> x2 - x1, y |-> y2 - y1]
        orth  == [x |-> 0 - v.y, y |-> v.x]
        den   == 2 * Norm(orth)
    IN  [points |-> <<[x |-> x1 * den + delta2 * orth.x, y |-> y1 * den + delta2 * orth.y],
                      [x |-> x2 * den + delta2 * orth.x, y |-> y2 * den + delta2 * orth.y]>>,
         den |-> den]

\* The path of one edge that is no self-loop: np.c_[[x1, x2], [y1, y2]].
StraightPath(edge, edges, node_positions, edge_width) ==
    LET p1 == node_positions[edge[1]]
        p2 == node_positions[edge[2]]
    IN  IF <<edge[2], edge[1]>> \in edges
        THEN _shift_edge(p1.x, p1.y, p2.x, p2.y, Delta2(edge_width[edge]))
        ELSE [points |-> <<p1, p2>>, den |-> 1]

\* Mutation of UnitVector: the loop of a single node points to the right.
UnitVector_Right(source, node_positions) == [x |-> 1, y |-> 0, den |-> 1]

\* unit_vector of _get_selfloop_path as numerators over den: away from the
\* centroid of all node positions, or (0, 1) for a single node. With two
\* nodes delta is half the difference of the two positions. den = 0 is the
\* division by a distance of zero.
UnitVector(source, node_positions) ==
    IF Cardinality(DOMAIN node_positions) > 1
    THEN LET other == CHOOSE n \in DOMAIN node_positions : n # source
             delta2 == [x |-> node_positions[source].x - node_positions[other].x,
                        y |-> node_positions[source].y - node_positions[other].y]
         IN  [x |-> delta2.x, y |-> delta2.y, den |-> Norm(delta2)]
    ELSE [x |-> 0, y |-> 1, den |-> 1]

\* selfloop_center = node_positions[source] + selfloop_radius * unit_vector,
\* as numerators over unit_vector.den.
SelfloopCenter(position, selfloop_radius, unit_vector) ==
    [x |-> position.x * unit_vector.den + selfloop_radius * unit_vector.x,
     y |-> position.y * unit_vector.den + selfloop_radius * unit_vector.y]

\* Cosine and sine of the sampled angles np.linspace(0, 2 pi, n), at a
\* resolution of a quarter turn.
SampledAngles ==
    <<[cos |-> 1, sin |-> 0], [cos |-> 0, sin |-> 1], [cos |-> -1, sin |-> 0],
      [cos |-> 0, sin |-> -1], [cos |-> 1, sin |-> 0]>>

\* _get_n_points_on_a_circle(center, radius, n, start_angle) for the start
\* angle _get_angle(*unit_vector) + pi, the direction opposite to
\* unit_vector: the points center + radius * (cos, sin)(start_angle + angle).
_get_n_points_on_a_circle(center, radius, unit_vector) ==
    [i \in DOMAIN SampledAngles |->
        LET a == SampledAngles[i]
        IN  [x |-> center.x + radius * ((0 - unit_vector.x) * a.cos + unit_vector.y * a.sin),
             y |-> center.y + radius * ((0 - unit_vector.y) * a.cos - unit_vector.x * a.sin)]]

\* np.clip(value, minimum, maximum)
Clip(value, minimum, maximum) ==
    IF value < minimum THEN minimum ELSE IF value > maximum THEN maximum ELSE value

\* _clip_to_frame(positions, origin, scale) for positions over den; a
\* position that is not a number (den = 0) stays one.
_clip_to_frame(positions, den, origin, scale) ==
    [i \in DOMAIN positions |->
        IF den = 0 THEN positions[i]
        ELSE [x |-> Clip(positions[i].x, origin.x * den, (origin.x + scale.x) * den),
              y |-> Clip(positions[i].y, origin.y * den, (origin.y + scale.y) * den)]]

\* _get_selfloop_path(source, node_positions, selfloop_radius, origin, scale)
_get_selfloop_path(source, node_positions, selfloop_radius, origin, scale) ==
    LET unit_vector == UnitVector(source, node_positions)
        center == SelfloopCenter(node_positions[source], selfloop_radius, unit_vector)
        circle == _get_n_points_on_a_circle(center, selfloop_radius, unit_vector)
    IN  [points |-> _clip_to_frame(Tail(circle), unit_vector.den, origin, scale),
         den |-> unit_vector.den]

\* ------------------------------------------------------------------------
\* Part IV: actions
\* ------------------------------------------------------------------------

\* A call of get_straight_edge_paths or of get_selfloop_paths.
RouteInit ==
    /\ r_kind \in {"straight", "selfloop"}
    /\ r_edges \in SUBSET RouteEdges
    /\ r_node_positions \in
         (IF r_kind = "selfloop" /\ r_edges \subseteq {<<1, 1>>}
          THEN OneNodePositions ELSE {}) \cup TwoNodePositions
    /\ r_edge_width \in
         (IF r_kind = "straight" THEN [r_edges -> 0..MaxWidth] ELSE {<<>>})
    /\ r_selfloop_radius \in (IF r_kind = "selfloop" THEN 1..MaxRadius ELSE {0})
    /\ r_origin = RouteCanvas.origin
    /\ r_scale = RouteCanvas.scale
    /\ r_remaining = r_edges
    /\ r_edge_paths = <<>>
    /\ r_warnings = {}
    /\ rpc = "loop"

\* get_straight_edge_paths, one pass of the loop over the edges: a
\* self-loop is passed over (the warning is commented out), any other edge
\* gets its path.
StraightEdgeStep ==
    /\ UNCHANGED routeOther
    /\ rpc = "loop" /\ r_kind = "straight"
    /\ \E edge \in r_remaining :
         /\ r_remaining' = r_remaining \ {edge}
         /\ r_edge_paths' =
              IF edge[1] = edge[2] THEN r_edge_paths
              ELSE [e \in DOMAIN r_edge_paths \cup {edge} |->
                      IF e = edge
                      THEN StraightPath(edge, r_edges, r_node_positions, r_edge_width)
                      ELSE r_edge_paths[e]]
    /\ UNCHANGED <<r_kind, r_edges, r_node_positions, r_edge_width, r_selfloop_radius,
                   r_origin, r_scale, r_warnings, rpc>>

\* get_selfloop_paths, one pass of the loop over the edges: an edge that
\* is no self-loop is passed over, a self-loop gets its path.
SelfloopEdgeStep ==
    /\ UNCHANGED routeOther
    /\ rpc = "loop" /\ r_kind = "selfloop"
    /\ \E edge \in r_remaining :
         /\ r_remaining' = r_remaining \ {edge}
         /\ r_edge_paths' =
              IF edge[1] # edge[2] THEN r_edge_paths
              ELSE [e \in DOMAIN r_edge_paths \cup {edge} |->
                      IF e = edge
                      THEN _get_selfloop_path(edge[1], r_node_positions, r_selfloop_radius,
                                              r_origin, r_scale)
                      ELSE r_edge_paths[e]]
    /\ UNCHANGED <<r_kind, r_edges, r_node_positions, r_edge_width, r_selfloop_radius,
                   r_origin, r_scale, r_warnings, rpc>>

\* return edge_paths
RouteReturn ==
    /\ UNCHANGED routeOther
    /\ rpc = "loop" /\ r_remaining = {}
    /\ rpc' = "done"
    /\ UNCHANGED <<r_kind, r_edges, r_node_positions, r_edge_width, r_selfloop_radius,
                   r_origin, r_scale, r_remaining, r_edge_paths, r_warnings>>

RouteNext == StraightEdgeStep \/ SelfloopEdgeStep \/ RouteReturn

InitRoute == RouteInit /\ CircIdle /\ DecIdle /\ FrIdle /\ ParseIdle /\ BundleIdle /\ StochIdle

SpecRoute == InitRoute /\ [][RouteNext]_vars

\* ------------------------------------------------------------------------
\* Part IV: properties
\* ------------------------------------------------------------------------

\* The z component of the cross product of two plane vectors.
Cross(u, v) == u.x * v.y - u.y * v.x

\* The vector from point p to point q.
Minus(q, p) == [x |-> q.x - p.x, y |-> q.y - p.y]

\* The point p in units of 1/den.
Times(p, den) == [x |-> p.x * den, y |-> p.y * den]

Abs(i) == IF i < 0 THEN 0 - i ELSE i

\* get_straight_edge_paths has returned the paths of both edges of the
\* 2-cycle of nodes 1 and 2, which have the same width and distinct
\* positions.
TwoCycleRouted ==
    /\ rpc = "done" /\ r_kind = "straight"
    /\ {<<1, 2>>, <<2, 1>>} \subseteq DOMAIN r_edge_paths
    /\ r_edge_width[<<1, 2>>] = r_edge_width[<<2, 1>>]
    /\ r_node_positions[1] # r_node_positions[2]

\* C12: for a 2-cycle (a, b), (b, a) with equal widths w and distinct node
\* positions the two returned segments are parallel to the line a-b, lie on
\* opposite sides of it, and their perpendicular distance is exactly w.
C12_TwoCycleSegmentsParallelAtWidth ==
    TwoCycleRouted =>
        LET a     == r_node_positions[1]
            d     == Minus(r_node_positions[2], a)
            w     == r_edge_width[<<1, 2>>]
            P     == r_edge_paths[<<1, 2>>]
            Q     == r_edge_paths[<<2, 1>>]
            sideP == Cross(d, Minus(P.points[1], Times(a, P.den)))
            sideQ == Cross(d, Minus(Q.points[1], Times(a, Q.den)))
        IN  /\ P.den = Q.den /\ P.den > 0
            /\ Len(P.points) = 2 /\ Len(Q.points) = 2
            /\ Cross(d, Minus(P.points[2], P.points[1])) = 0
            /\ Cross(d, Minus(Q.points[2], Q.points[1])) = 0
            /\ sideP * sideQ <= 0
            /\ w > 0 => sideP * sideQ < 0
            /\ Abs(Cross(d, Minus(Q.points[1], P.points[1]))) = w * Norm(d) * P.den

\* A routed 2-cycle of positive width whose line a-b is parallel to no axis.
C12_Witness ==
    /\ TwoCycleRouted
    /\ r_edge_width[<<1, 2>>] > 0
    /\ r_node_positions[1].x # r_node_positions[2].x
    /\ r_node_positions[1].y # r_node_positions[2].y

\* C16: when get_straight_edge_paths is given an edge list with a self-loop,
\* the self-loop gets no path in the result and a diagnostic is emitted for
\* it.
C16_SelfLoopSkippedWithDiagnostic ==
    (rpc = "done" /\ r_kind = "straight") =>
        \A edge \in r_edges :
            edge[1] = edge[2] =>
                /\ edge \notin DOMAIN r_edge_paths
                /\ edge \in r_warnings

\* get_selfloop_paths has returned the path of the self-loop of node 1.
SelfloopRouted ==
    /\ rpc = "done" /\ r_kind = "selfloop"
    /\ <<1, 1>> \in DOMAIN r_edge_paths

\* The square of the distance of two points.
SquaredDistance(p, q) == (p.x - q.x) * (p.x - q.x) + (p.y - q.y) * (p.y - q.y)

\* The circle of the given radius about the centre lies within the canvas.
\* All lengths are in units of 1/den.
CircleWithinCanvas(center, radius, den) ==
    /\ r_origin.x * den <= center.x - radius
    /\ center.x + radius <= (r_origin.x + r_scale.x) * den
    /\ r_origin.y * den <= center.y - radius
    /\ center.y + radius <= (r_origin.y + r_scale.y) * den

\* Every point of the path is a point of the circle, moved coordinate by
\* coordinate to the nearest value within the canvas.
ClippedCirclePoints(path, center, radius) ==
    /\ path.den > 0
    /\ \A i \in DOMAIN path.points :
         \E q \in [x : (center.x - radius)..(center.x + radius),
                   y : (center.y - radius)..(center.y + radius)] :
            /\ SquaredDistance(q, center) = radius * radius
            /\ path.points[i] = _clip_to_frame(<<q>>, path.den, r_origin, r_scale)[1]

\* Every point of the path is a point of the circle.
CirclePoints(path, center, radius) ==
    /\ path.den > 0
    /\ \A i \in DOMAIN path.points :
         SquaredDistance(path.points[i], center) = radius * radius

\* The centre of the loop of a single node: the position plus
\* selfloop_radius times (0, 1).
CentreAbove == [x |-> r_node_positions[1].x, y |-> r_node_positions[1].y + r_selfloop_radius]

\* C19 as stated: with exactly one node in node_positions the path of its
\* self-loop is an arc of the circle of radius selfloop_radius about the
\* node position plus selfloop_radius times (0, 1), whatever the position.
C19_SingleNodeLoopOnCircle ==
    (SelfloopRouted /\ DOMAIN r_node_positions = {1}) =>
        /\ r_edge_paths[<<1, 1>>].den = 1
        /\ CirclePoints(r_edge_paths[<<1, 1>>], CentreAbove, r_selfloop_radius)

\* C19, amended: with exactly one node the path of its self-loop consists of
\* points of the circle of radius selfloop_radius about the node position
\* plus selfloop_radius times (0, 1), each clipped coordinatewise to the
\* canvas; it is an arc of that circle when the circle lies within the
\* canvas. With two nodes at distinct positions the centre lies
\* selfloop_radius from the node in the direction away from the centroid.
C19_SingleNodeLoopOnClippedCircle ==
    SelfloopRouted =>
        LET path == r_edge_paths[<<1, 1>>]
        IN  /\ DOMAIN r_node_positions = {1} =>
                 /\ path.den = 1
                 /\ Len(path.points) > 0
                 /\ ClippedCirclePoints(path, CentreAbove, r_selfloop_radius)
                 /\ CircleWithinCanvas(CentreAbove, r_selfloop_radius, 1) =>
                        CirclePoints(path, CentreAbove, r_selfloop_radius)
            /\ (DOMAIN r_node_positions = {1, 2} /\ r_node_positions[1] # r_node_positions[2]) =>
                 LET away   == Minus(r_node_positions[1], r_node_positions[2])
                     center == [x |-> r_node_positions[1].x * path.den + r_selfloop_radius * away.x,
                                y |-> r_node_positions[1].y * path.den + r_selfloop_radius * away.y]
                 IN  /\ path.den = Norm(away)
                     /\ ClippedCirclePoints(path, center, r_selfloop_radius * path.den)

\* The self-loop of a single node whose circle lies within the canvas.
C19_Witness ==
    /\ SelfloopRouted
    /\ DOMAIN r_node_positions = {1}
    /\ CircleWithinCanvas(CentreAbove, r_selfloop_radius, 1)

\* ========================================================================
\* Part V  removal of duplicate edges (_handle_multigraphs).
\* ========================================================================

\* Largest length of a parsed edge list.
MaxEdges == 4

\* The edges of the parsed edge lists.
ParseEdges == {<<1, 2>>, <<2, 1>>, <<1, 1>>}

\* The edge lists a parser returns.
ParsedEdgeLists == UNION {[1..n -> ParseEdges] : n \in 0..MaxEdges}

\* len(set(edges)) < len(edges)
HasDuplicates(edges) == Cardinality(Range(edges)) < Len(edges)

\* Mutation of IsNew: an edge is also taken as present when its reverse is.
IsNew_Undirected(edge, new_edges) ==
    edge \notin Range(new_edges) /\ <<edge[2], edge[1]>> \notin Range(new_edges)

\* edge not in new_edges
IsNew(edge, new_edges) == edge \notin Range(new_edges)

\* The parser has returned nodes, edges, edge_weight to the wrapper.
ParseInit ==
    /\ p_edges \in ParsedEdgeLists
    /\ p_new_edges = <<>>
    /\ p_ii = 0
    /\ p_warnings = 0
    /\ p_result = <<>>
    /\ ppc = "parsed"

\* No duplicates: return nodes, edges, edge_weight.
ReturnParsedEdges ==
    /\ UNCHANGED parseOther
    /\ ppc = "parsed" /\ ~HasDuplicates(p_edges)
    /\ p_result' = p_edges
    /\ ppc' = "done"
    /\ UNCHANGED <<p_edges, p_new_edges, p_ii, p_warnings>>

\* Duplicates: warnings.warn(msg); new_edges = [].
WarnOfDuplicates ==
    /\ UNCHANGED parseOther
    /\ ppc = "parsed" /\ HasDuplicates(p_edges)
    /\ p_warnings' = p_warnings + 1
    /\ p_new_edges' = <<>>
    /\ p_ii' = 1
    /\ ppc' = "loop"
    /\ UNCHANGED <<p_edges, p_result>>

\* One pass of `for edge in edges`: the edge is appended unless present.
RemoveDuplicatesStep ==
    /\ UNCHANGED parseOther
    /\ ppc = "loop" /\ p_ii <= Len(p_edges)
    /\ p_new_edges' = IF IsNew(p_edges[p_ii], p_new_edges)
                      THEN Append(p_new_edges, p_edges[p_ii])
                      ELSE p_new_edges
    /\ p_ii' = p_ii + 1
    /\ UNCHANGED <<p_edges, p_warnings, p_result, ppc>>

\* return nodes, new_edges, edge_weight
ReturnNewEdges ==
    /\ UNCHANGED parseOther
    /\ ppc = "loop" /\ p_ii > Len(p_edges)
    /\ p_result' = p_new_edges
    /\ ppc' = "done"
    /\ UNCHANGED <<p_edges, p_new_edges, p_ii, p_warnings>>

ParseNext ==
    \/ ReturnParsedEdges
    \/ WarnOfDuplicates
    \/ RemoveDuplicatesStep
    \/ ReturnNewEdges

InitParse == ParseInit /\ CircIdle /\ DecIdle /\ FrIdle /\ RouteIdle /\ BundleIdle /\ StochIdle

SpecParse == InitParse /\ [][ParseNext]_vars

\* ------------------------------------------------------------------------
\* Part V: properties
\* ------------------------------------------------------------------------

\* The index of the first occurrence of an edge in an edge list.
FirstIndex(edge, edges) == Min({i \in DOMAIN edges : edges[i] = edge})

\* C17: the edge list returned by a wrapped parser contains no edge twice,
\* contains every distinct input edge, keeps the edges in order of first
\* occurrence, and a diagnostic is emitted exactly when the input contained
\* a duplicate; (a, b) and (b, a) are distinct edges and both are kept.
C17_DuplicatesRemovedInOrder ==
    ppc = "done" =>
        /\ \A i, j \in DOMAIN p_result : i # j => p_result[i] # p_result[j]
        /\ Range(p_result) = Range(p_edges)
        /\ \A i, j \in DOMAIN p_result :
             i < j => FirstIndex(p_result[i], p_edges) < FirstIndex(p_result[j], p_edges)
        /\ p_warnings = (IF \E i, j \in DOMAIN p_edges : i # j /\ p_edges[i] = p_edges[j]
                         THEN 1 ELSE 0)
        /\ \A i, j \in DOMAIN p_edges :
             p_edges[j] = <<p_edges[i][2], p_edges[i][1]>> =>
                {p_edges[i], p_edges[j]} \subseteq Range(p_result)

\* A returned list from which a duplicate was removed and which holds both
\* directions of an edge.
C17_Witness ==
    /\ ppc = "done"
    /\ Len(p_result) < Len(p_edges)
    /\ {<<1, 2>>, <<2, 1>>} \subseteq Range(p_result)

\* ------------------------------------------------------------------------
\* Part I: _optimize_node_order on its own, on graphs of up to MaxSiftNodes
\* nodes
\* ------------------------------------------------------------------------

\* Largest number of nodes of a graph handed to _optimize_node_order alone.
MaxSiftNodes == 5

\* A call _optimize_node_order(node_to_neighbours, max_iterations=...) with
\* node_order left at None.
SiftInit ==
    \E n \in 2..MaxSiftNodes :
        \E g \in ConnectedGraphs(n) :
            /\ node_to_neighbours = EdgeListToAdjacencyList(g, 1..n)
            /\ keys = Identity(n)
            /\ entry = "sift"
            /\ max_iterations \in {1, 2}
            /\ cpc = "optimize"
            /\ ordered = NoOrder
            /\ remaining = NoOrder
            /\ open_edges = {}
            /\ start_order = keys
            /\ node_order = NoOrder
            /\ best_order = NoOrder
            /\ total_crossings = 0
            /\ minimum_crossings = 0
            /\ previous_best = 0
            /\ iteration = 0
            /\ pass_nodes = NoOrder
            /\ upos = 0
            /\ ii = 0
            /\ jj = 0
            /\ warned = FALSE

SiftNext ==
    \/ OptimizeEnter
    \/ PassBegin
    \/ SiftBegin
    \/ SiftSwap
    \/ SiftEnd
    \/ PassEnd

InitSift == SiftInit /\ DecIdle /\ FrIdle /\ RouteIdle /\ ParseIdle /\ BundleIdle /\ StochIdle

SpecSift == InitSift /\ [][SiftNext]_vars

\* ------------------------------------------------------------------------
\* Part I: properties of the returned order
\* ------------------------------------------------------------------------

\* C15: the order _optimize_node_order returns never has more edge crossings
\* than the order it started from, also when it stops at the iteration
\* bound.
C15_SiftingNeverWorse ==
    cpc = "done" =>
        EdgeCrossings(node_order, node_to_neighbours)
            <= EdgeCrossings(start_order, node_to_neighbours)

\* ========================================================================
\* Part VI  force-directed edge bundling (get_bundled_edge_paths).
\* ========================================================================

\* Largest total_cycles.
MaxCycles == 2

\* Largest total_iterations.
MaxSubIterations == 2

\* Largest length of the edge list.
MaxBundleEdges == 3

\* Number of points of a smoothed path; stands for np.linspace(0, 1, 100).
PathResolution == 3

\* ------------------------------------------------------------------------
\* Part VI: inputs
\* ------------------------------------------------------------------------

\* The edges of the edge lists.
BundleEdgeChoices == {<<1, 2>>, <<2, 1>>, <<3, 4>>, <<1, 3>>, <<1, 1>>}

\* node_positions: the corners of a rectangle, with the edges (1, 2) and
\* (3, 4) as its diagonals, four points in general position, and four points
\* with the edges (1, 2) and (3, 4) running side by side in opposite
\* directions. No two nodes coincide and no two of the edges are
\* perpendicular.
BundlePositions ==
    {<<[x |-> 0, y |-> 0], [x |-> 1, y |-> 2], [x |-> 1, y |-> 0], [x |-> 0, y |-> 2]>>,
     <<[x |-> 0, y |-> 0], [x |-> 2, y |-> 1], [x |-> 0, y |-> 1], [x |-> 1, y |-> 2]>>,
     <<[x |-> 1, y |-> 2], [x |-> 0, y |-> 0], [x |-> 3, y |-> 3], [x |-> 2, y |-> 2]>>}

\* The edge lists: up to MaxBundleEdges distinct edges that form one
\* component, as _handle_multiple_components hands them to the function.
BundleEdgeLists ==
    {s \in UNION {[1..n -> BundleEdgeChoices] : n \in 1..MaxBundleEdges} :
        /\ \A i, j \in DOMAIN s : i # j => s[i] # s[j]
        /\ Cardinality(ConnectedComponents(Range(s))) <= 1}

\* ------------------------------------------------------------------------
\* Part VI: pure functions
\* ------------------------------------------------------------------------

\* np.any([source == target for source, target in edges])
HasSelfLoop(edges) == \E i \in DOMAIN edges : edges[i][1] = edges[i][2]

IsNoSelfLoop(edge) == edge[1] # edge[2]

\* [(source, target) for (source, target) in edges if source != target]
RemoveSelfLoops(edges) == SelectSeq(edges, IsNoSelfLoop)

\* The loop that fills unidirectional_edges: an edge is added unless its
\* reverse was added before.
RECURSIVE UnidirectionalEdges(_, _)
UnidirectionalEdges(edges, kept) ==
    IF edges = <<>> THEN kept
    ELSE LET edge == Head(edges)
         IN  UnidirectionalEdges(Tail(edges),
                                 IF <<edge[2], edge[1]>> \notin kept
                                 THEN kept \cup {edge} ELSE kept)

\* reverse_edges = list(set(edges) - unidirectional_edges)
ReverseEdges(edges) == Range(edges) \ UnidirectionalEdges(edges, {})

\* The square of np.linalg.norm(p - q).
SquaredNorm(p, q) == (p.x - q.x) * (p.x - q.x) + (p.y - q.y) * (p.y - q.y)

\* reverse of _get_edge_compatibility. A norm is smaller than another exactly
\* when its square is.
ReverseFlag(P0, P1, Q0, Q1) ==
    Min({SquaredNorm(P0, Q0), SquaredNorm(P1, Q1)})
        > Min({SquaredNorm(P0, Q1), SquaredNorm(P1, Q0)})

\* _get_edge_compatibility(edges, node_positions, threshold) for a
\* threshold of zero, with which every pair of edges is retained: the pairs
\* of itertools.combinations(edges, 2) with their reverse flags. The value
\* of the compatibility, a number for the node positions of the model, is
\* not represented.
_get_edge_compatibility(edges, node_positions) ==
    {[e1 |-> edges[i], e2 |-> edges[j],
      reverse |-> ReverseFlag(node_positions[edges[i][1]], node_positions[edges[i][2]],
                              node_positions[edges[j][1]], node_positions[edges[j][2]])] :
        <<i, j>> \in {p \in (DOMAIN edges) \X (DOMAIN edges) : p[1] < p[2]}}

\* Control points are in units of 1/CpDen, which keeps the mid-points of
\* MaxCycles expansions whole numbers.
CpDen == 2 ^ MaxCycles

\* A control point at a known position.
ExactPoint(p) == [kind |-> "exact", x |-> p.x * CpDen, y |-> p.y * CpDen]

\* A control point that a force has moved; its position is a number that is
\* not represented and is taken to differ from every other position.
MovedPoint == [kind |-> "moved", x |-> 0, y |-> 0]

\* A control point whose coordinates are not numbers.
NaNPoint == [kind |-> "nan", x |-> 0, y |-> 0]

\* _initialize_bundled_control_points(edges, node_positions)
_initialize_bundled_control_points(edges, node_positions) ==
    [edge \in Range(edges) |->
        <<ExactPoint(node_positions[edge[1]]), ExactPoint(node_positions[edge[2]])>>]

\* 0.5 * (p2 - p1) + p1
Midpoint(p1, p2) ==
    IF p1.kind = "nan" \/ p2.kind = "nan" THEN NaNPoint
    ELSE IF p1.kind = "moved" \/ p2.kind = "moved" THEN MovedPoint
    ELSE [kind |-> "exact", x |-> (p2.x - p1.x) \div 2 + p1.x,
                            y |-> (p2.y - p1.y) \div 2 + p1.y]

\* Mutation of ExpandedControlPoints: the number of control points is doubled.
ExpandedControlPoints_Doubled(control_points_old) ==
    [idx \in 1..(2 * Len(control_points_old)) |-> control_points_old[(idx + 1) \div 2]]

\* control_points_new of _expand_control_points for one edge
ExpandedControlPoints(control_points_old) ==
    [idx \in 1..(2 * (Len(control_points_old) - 1) + 1) |->
        IF idx % 2 = 1 THEN control_points_old[(idx + 1) \div 2]
        ELSE Midpoint(control_points_old[idx \div 2], control_points_old[idx \div 2 + 1])]

\* _expand_control_points(edge_to_control_points)
_expand_control_points(edge_to_control_points) ==
    [edge \in DOMAIN edge_to_control_points |->
        ExpandedControlPoints(edge_to_control_points[edge])]

\* The sum of a set of force entries. An entry is "zero", a "number" that
\* is not known to be zero, or "nan".
ForceSum(entries) ==
    IF "nan" \in entries THEN "nan"
    ELSE IF "number" \in entries THEN "number"
    ELSE "zero"

\* delta[idx] of _get_Fs for an inner control point: diff[idx] - diff[idx-1].
SpringDelta(control_points, idx) ==
    LET a == control_points[idx - 1]
        b == control_points[idx]
        c == control_points[idx + 1]
        kinds == {a.kind, b.kind, c.kind}
    IN  IF "nan" \in kinds THEN "nan"
        ELSE IF "moved" \in kinds THEN "number"
        ELSE IF a.x - 2 * b.x + c.x = 0 /\ a.y - 2 * b.y + c.y = 0 THEN "zero"
        ELSE "number"

\* _get_Fs(edge_to_control_points, k): delta is zero at both ends, and kp
\* is a positive number since no two nodes coincide.
_get_Fs(edge_to_control_points) ==
    [edge \in DOMAIN edge_to_control_points |->
        LET control_points == edge_to_control_points[edge]
        IN  [idx \in DOMAIN control_points |->
                IF idx = 1 \/ idx = Len(control_points) THEN "zero"
                ELSE SpringDelta(control_points, idx)]]

\* displacement[idx] of _get_Fe for delta = Q - P:
\* compatibility * delta / distance_squared, which is 0/0 where the two
\* control points coincide, and zero at both ends.
Displacement(P, Q, idx) ==
    IF idx = 1 \/ idx = Len(P) THEN "zero"
    ELSE IF P[idx].kind = "nan" \/ Q[idx].kind = "nan" THEN "nan"
    ELSE IF P[idx].kind = "exact" /\ Q[idx].kind = "exact" /\ P[idx] = Q[idx] THEN "nan"
    ELSE "number"

\* Q[::-1]
Reversed(Q) == [idx \in DOMAIN Q |-> Q[Len(Q) + 1 - idx]]

\* _get_Fe(edge_to_control_points, edge_compatibility, out): every pair
\* adds its displacement to out[e1] and subtracts it, read in reverse for a
\* reversed pair, from out[e2].
_get_Fe(edge_to_control_points, edge_compatibility, out) ==
    [edge \in DOMAIN out |->
        [idx \in DOMAIN out[edge] |->
            ForceSum({out[edge][idx]}
                \cup {Displacement(edge_to_control_points[c.e1],
                                   IF c.reverse THEN Reversed(edge_to_control_points[c.e2])
                                   ELSE edge_to_control_points[c.e2], idx) :
                         c \in {c \in edge_compatibility : c.e1 = edge}}
                \cup {Displacement(edge_to_control_points[c.e1],
                                   IF c.reverse THEN Reversed(edge_to_control_points[c.e2])
                                   ELSE edge_to_control_points[c.e2],
                                   IF c.reverse THEN Len(out[edge]) + 1 - idx ELSE idx) :
                         c \in {c \in edge_compatibility : c.e2 = edge}})]]

\* _update_control_point_positions(edge_to_control_points, F, step_size):
\* the displacement of an edge is scaled by its norm over all control
\* points, so one entry that is not a number makes every entry, and with it
\* every control point of the edge, not a number.
_update_control_point_positions(edge_to_control_points, F) ==
    [edge \in DOMAIN edge_to_control_points |->
        LET control_points == edge_to_control_points[edge]
        IN  IF \E idx \in DOMAIN control_points : F[edge][idx] = "nan"
            THEN [idx \in DOMAIN control_points |-> NaNPoint]
            ELSE [idx \in DOMAIN control_points |->
                    IF F[edge][idx] = "zero" \/ control_points[idx].kind = "nan"
                    THEN control_points[idx]
                    ELSE MovedPoint]]

\* Mutation of NextTotalIterations: two thirds, rounded up.
NextTotalIterations_RoundedUp(total_iterations) == (2 * total_iterations + 2) \div 3

\* total_iterations = int(2/3 * total_iterations)
NextTotalIterations(total_iterations) == (2 * total_iterations) \div 3

\* A chain holds a control point that is not a number.
HasNaN(control_points) == \E idx \in DOMAIN control_points : control_points[idx].kind = "nan"

\* _smooth_path(path): the points of the cubic smoothing spline through
\* the chain at the PathResolution values of alpha from 0 to 1.
_smooth_path(path) == [num \in 1..PathResolution |-> [spline |-> path, alpha |-> num]]

\* Degree of the spline, UnivariateSpline(..., k=3): it needs more than k
\* points.
SplineDegree == 3

\* _smooth_edges(edge_to_path)
_smooth_edges(edge_to_path) == [edge \in DOMAIN edge_to_path |-> _smooth_path(edge_to_path[edge])]

\* Mutation of ReversedPath: the path is returned in the direction simulated.
ReversedPath_Same(path) == path

\* edge_to_control_points[(target, source)][::-1]
ReversedPath(path) == [num \in DOMAIN path |-> path[Len(path) + 1 - num]]

\* The mapping after the loop over reverse_edges.
WithReverseEdges(edge_to_path, reverse_edges) ==
    [edge \in DOMAIN edge_to_path \cup reverse_edges |->
        IF edge \in reverse_edges THEN ReversedPath(edge_to_path[<<edge[2], edge[1]>>])
        ELSE edge_to_path[edge]]

\* ------------------------------------------------------------------------
\* Part VI: actions
\* ------------------------------------------------------------------------

\* A call get_bundled_edge_paths(edges, node_positions,
\* compatibility_threshold=0, total_cycles=..., total_iterations=...).
BundleInit ==
    /\ b_edges \in BundleEdgeLists
    /\ b_node_positions \in BundlePositions
    /\ b_total_cycles \in 1..MaxCycles
    /\ b_total_iterations \in 1..MaxSubIterations
    /\ b_halvings = 0
    /\ b_warnings = 0
    /\ b_simulated = <<>>
    /\ b_reverse_edges = {}
    /\ b_compatibility = {}
    /\ b_control_points = <<>>
    /\ b_cycle = 0
    /\ b_iteration = 0
    /\ b_paths = <<>>
    /\ bpc = "call"

\* The self-loops are removed with a warning, the reverse edges are set
\* aside, and the compatibilities and the control points are initialised.
BundlePrepare ==
    /\ UNCHANGED bundleOther
    /\ bpc = "call"
    /\ LET edges == IF HasSelfLoop(b_edges) THEN RemoveSelfLoops(b_edges) ELSE b_edges
           unidirectional_edges == UnidirectionalEdges(edges, {})
           simulated == SetToSeq(unidirectional_edges)
       IN  /\ b_warnings' = IF HasSelfLoop(b_edges) THEN b_warnings + 1 ELSE b_warnings
           /\ b_reverse_edges' = ReverseEdges(edges)
           /\ b_simulated' = simulated
           /\ b_compatibility' = _get_edge_compatibility(simulated, b_node_positions)
           /\ b_control_points' = _initialize_bundled_control_points(simulated, b_node_positions)
    /\ bpc' = "cycle"
    /\ UNCHANGED <<b_edges, b_node_positions, b_total_cycles, b_total_iterations, b_halvings,
                   b_cycle, b_iteration, b_paths>>

\* Head of a cycle: edge_to_control_points = _expand_control_points(...).
BundleExpand ==
    /\ UNCHANGED bundleOther
    /\ bpc = "cycle"
    /\ b_cycle < b_total_cycles
    /\ b_control_points' = _expand_control_points(b_control_points)
    /\ b_cycle' = b_cycle + 1
    /\ b_iteration' = 0
    /\ bpc' = "iterate"
    /\ UNCHANGED <<b_edges, b_node_positions, b_total_cycles, b_total_iterations, b_halvings,
                   b_warnings, b_simulated, b_reverse_edges, b_compatibility, b_paths>>

\* One sub-iteration: the forces, then the update of the control points.
BundleIterate ==
    /\ UNCHANGED bundleOther
    /\ bpc = "iterate"
    /\ b_iteration < b_total_iterations
    /\ LET F == _get_Fe(b_control_points, b_compatibility, _get_Fs(b_control_points))
       IN  b_control_points' = _update_control_point_positions(b_control_points, F)
    /\ b_iteration' = b_iteration + 1
    /\ UNCHANGED <<b_edges, b_node_positions, b_total_cycles, b_total_iterations, b_halvings,
                   b_warnings, b_simulated, b_reverse_edges, b_compatibility, b_cycle,
                   b_paths, bpc>>

\* End of a cycle: step_size /= 2.; total_iterations = int(2/3 * total_iterations).
BundleCycleEnd ==
    /\ UNCHANGED bundleOther
    /\ bpc = "iterate"
    /\ b_iteration >= b_total_iterations
    /\ b_halvings' = b_halvings + 1
    /\ b_total_iterations' = NextTotalIterations(b_total_iterations)
    /\ bpc' = "cycle"
    /\ UNCHANGED <<b_edges, b_node_positions, b_total_cycles, b_warnings, b_simulated,
                   b_reverse_edges, b_compatibility, b_control_points, b_cycle, b_iteration,
                   b_paths>>

\* The spline of some chain cannot be fitted: the chain has no more than
\* SplineDegree points. Whether scipy fits a chain that is not a number is
\* left open.
BundleRaise ==
    /\ UNCHANGED bundleOther
    /\ bpc = "cycle"
    /\ b_cycle >= b_total_cycles
    /\ \E edge \in DOMAIN b_control_points :
         \/ Len(b_control_points[edge]) <= SplineDegree
         \/ HasNaN(b_control_points[edge])
    /\ bpc' = "raised"
    /\ UNCHANGED <<b_edges, b_node_positions, b_total_cycles, b_total_iterations, b_halvings,
                   b_warnings, b_simulated, b_reverse_edges, b_compatibility,
                   b_control_points, b_cycle, b_iteration, b_paths>>

\* After the cycles (straighten_by = 0): the paths are smoothed, the
\* reverse edges are added, and the mapping is returned.
BundleReturn ==
    /\ UNCHANGED bundleOther
    /\ bpc = "cycle"
    /\ b_cycle >= b_total_cycles
    /\ \A edge \in DOMAIN b_control_points : Len(b_control_points[edge]) > SplineDegree
    /\ b_paths' = WithReverseEdges(_smooth_edges(b_control_points), b_reverse_edges)
    /\ bpc' = "done"
    /\ UNCHANGED <<b_edges, b_node_positions, b_total_cycles, b_total_iterations, b_halvings,
                   b_warnings, b_simulated, b_reverse_edges, b_compatibility,
                   b_control_points, b_cycle, b_iteration>>

BundleNext ==
    \/ BundlePrepare
    \/ BundleExpand
    \/ BundleIterate
    \/ BundleCycleEnd
    \/ BundleRaise
    \/ BundleReturn

InitBundle == BundleInit /\ CircIdle /\ DecIdle /\ FrIdle /\ RouteIdle /\ ParseIdle /\ StochIdle

SpecBundle == InitBundle /\ [][BundleNext]_vars

\* ------------------------------------------------------------------------
\* Part VI: properties
\* ------------------------------------------------------------------------

\* The input holds both directions of an edge.
BothDirections(edge) ==
    /\ edge[1] # edge[2]
    /\ edge \in Range(b_edges)
    /\ <<edge[2], edge[1]>> \in Range(b_edges)

\* C13: when the input holds both (a, b) and (b, a), exactly one of the two
\* directions is simulated, and the returned path of the other direction is
\* the point-by-point reverse of the returned path of the simulated one.
C13_ReverseEdgeIsReversedPath ==
    bpc = "done" =>
        \A edge \in Range(b_edges) :
            BothDirections(edge) =>
                LET other == <<edge[2], edge[1]>>
                IN  /\ (edge \in Range(b_simulated)) # (other \in Range(b_simulated))
                    /\ {edge, other} \subseteq DOMAIN b_paths
                    /\ Len(b_paths[other]) = Len(b_paths[edge])
                    /\ \A num \in DOMAIN b_paths[edge] :
                         b_paths[other][num] = b_paths[edge][Len(b_paths[edge]) + 1 - num]

\* A returned call whose input holds both directions of an edge.
C13_Witness ==
    /\ bpc = "done"
    /\ \E edge \in Range(b_edges) : BothDirections(edge)
    /\ Cardinality(Range(b_simulated)) > 1

\* C14: throughout the simulation, after every expansion of the control
\* points and after every sub-iteration, the first control point of every
\* simulated edge is the position of its source node and the last one the
\* position of its target node.
C14_EndPointsStayAtNodes ==
    bpc \in {"cycle", "iterate"} =>
        \A edge \in DOMAIN b_control_points :
            /\ b_control_points[edge][1] = ExactPoint(b_node_positions[edge[1]])
            /\ b_control_points[edge][Len(b_control_points[edge])]
                  = ExactPoint(b_node_positions[edge[2]])

\* ------------------------------------------------------------------------
\* Part III: properties of the main loop
\* ------------------------------------------------------------------------

\* The point lies within the canvas of the call, in exact arithmetic.
InsideCanvas(point) ==
    /\ point.x >= f_origin.x
    /\ point.x <= f_origin.x + f_scale.x
    /\ point.y >= f_origin.y
    /\ point.y <= f_origin.y + f_scale.y

MobileNodes == {n \in DOMAIN f_array : f_is_mobile[n]}

\* C20: when the initial positions lie within the bbox, every mobile node lies
\* within the bbox after every iteration of the main loop, and in an iteration
\* a node whose candidate position is outside the bbox keeps exactly its
\* previous position, whatever the other nodes do; a node that changes its
\* position is mobile.
C20_MainLoopKeepsNodesWithinBbox ==
    /\ [](fpc = "loop" => \A n \in MobileNodes : InsideCanvas(f_array[n]))
    /\ [][f_ii' = f_ii + 1 =>
             /\ \A n \in f_outside' : f_array'[n] = f_array[n]
             /\ \A n \in DOMAIN f_array : f_array'[n] # f_array[n] => f_is_mobile[n]]_vars

\* An iteration in which the candidate of one mobile node was outside the
\* bbox, so the node stayed, while another mobile node moved.
C20_Witness ==
    /\ fpc = "loop"
    /\ f_ii > 0
    /\ \E n \in f_outside : \E m \in f_moved : n # m /\ f_is_mobile[n] /\ f_is_mobile[m]

\* ------------------------------------------------------------------------
\* Part VII: reproducibility of the stochastic layouts
\* ------------------------------------------------------------------------
\* Two runs of get_random_layout, of get_fruchterman_reingold_layout without
\* node_positions, or of get_curved_edge_paths are made on the same inputs,
\* each with a random number generator in the same state at its start.
\* Positions are kept symbolically: where a node started, and for each
\* iteration of the main loop the perturbations that set its displacement.

\* Largest number of iterations of the main loop.
MaxStochIterations == 1

\* Largest number of edges in the edge list.
MaxStochEdges == 2

\* The number of distinct values uuid4() returns in the model.
MaxTokens == 3

\* Largest state of the random number generator at the start of a run.
MaxSeed == 2

\* The number of distinct values of one random number.
DrawModulus == 3

Runs == {1, 2}

StochEdgeChoices == {<<1, 2>>, <<2, 1>>, <<2, 3>>}

StochEdgeLists ==
    {s \in UNION {[1..n -> StochEdgeChoices] : n \in 1..MaxStochEdges} :
        \A a, b \in DOMAIN s : s[a] = s[b] => a = b}

\* The positions of the nodes handed to the curved edge routing.
StochNodePositions ==
    (1 :> [x |-> 0, y |-> 0]) @@ (2 :> [x |-> 2, y |-> 0]) @@ (3 :> [x |-> 2, y |-> 2])

\* The values of uuid4(): identifiers apart from the node identifiers.
Tokens == {10 + t : t \in 1..MaxTokens}

\* The n-th number of np.random's stream from the generator state seed.
Draw(seed, n) == 1 + ((seed * n) % DrawModulus)

\* np.random.rand(2), when drawn numbers were taken from the stream before.
RandomPair(seed, drawn) == [x |-> Draw(seed, drawn + 1), y |-> Draw(seed, drawn + 2)]

\* A set of identifiers as the list in the order of the identifiers.
RECURSIVE SortedIds(_)
SortedIds(S) == IF S = {} THEN <<>> ELSE <<Min(S)>> \o SortedIds(S \ {Min(S)})

\* _get_unique_nodes(edges) for a list of edges: the identifiers that occur
\* in the edges, in an order the identifiers determine.
UniqueNodeList(edges) == SortedIds(UniqueNodes(Range(edges)))

\* A position nothing has moved yet.
StartAt(point) == [at |-> point, moved |-> <<>>]

RECURSIVE GCD(_, _)
GCD(a, b) == IF b = 0 THEN a ELSE GCD(b, a % b)

\* delta / distance: the direction of a vector with positive entries.
Direction(v) == [x |-> v.x \div GCD(v.x, v.y), y |-> v.y \div GCD(v.x, v.y)]

\* _initialize_control_points, for edges that are no self-loops and a k with
\* distance / pi / k < 2: one control point per edge, named by uuid4().
ControlPointNames(edges) ==
    {names \in [DOMAIN edges -> Tokens] : \A a, b \in DOMAIN edges : names[a] = names[b] => a = b}

\* _expand_edges
ExpandedEdges(edges, names) ==
    UNION {{<<edges[e][1], names[e]>>, <<names[e], edges[e][2]>>} : e \in DOMAIN edges}

\* _init_nonloop for one control point: m = 1 / 2.
InitNonloop(source, target, node_positions) ==
    [x |-> node_positions[source].x + (node_positions[target].x - node_positions[source].x) \div 2,
     y |-> node_positions[source].y + (node_positions[target].y - node_positions[source].y) \div 2]

\* _initialize_control_point_positions joined with the node positions
\* (expanded_node_positions of _optimize_control_point_positions).
ExpandedNodePositions(edges, names, node_positions) ==
    [id \in Range(names) \cup UniqueNodes(Range(edges)) |->
        IF id \in Range(names)
        THEN LET e == CHOOSE e \in DOMAIN edges : names[e] = id
             IN  StartAt(InitNonloop(edges[e][1], edges[e][2], node_positions))
        ELSE StartAt(node_positions[id])]

\* The rows of a sequence of identifiers that are in the set.
RECURSIVE Rows(_, _)
Rows(nodes, S) ==
    IF nodes = <<>> THEN <<>>
    ELSE (IF Head(nodes) \in S THEN <<Head(nodes)>> ELSE <<>>) \o Rows(Tail(nodes), S)

\* _fruchterman_reingold for the mobile rows: when rows coincide, rand_delta
\* is drawn for the whole of delta and replaces its entries of distance zero;
\* the repulsion from a coincident row then sets the direction of the
\* displacement, whose length is the temperature.
CandidatePositions(unique_nodes, fixed, positions, seed, drawn) ==
    LET mobile   == Rows(unique_nodes, Range(unique_nodes) \ fixed)
        combined == mobile \o Rows(unique_nodes, fixed)
        is_zero(i, j) == positions[combined[i]] = positions[mobile[j]]
        coincide == \E i \in DOMAIN combined : \E j \in DOMAIN mobile : i # j /\ is_zero(i, j)
        rand_delta(i, j) ==
            RandomPair(seed, drawn + ((i - 1) * Len(mobile) + (j - 1)) * 2)
        pushes(j) ==
            IF coincide
            THEN {Direction(rand_delta(i, j)) : i \in {i \in DOMAIN combined : i # j /\ is_zero(i, j)}}
            ELSE {}
    IN  [drawn     |-> IF coincide THEN drawn + Len(combined) * Len(mobile) * 2 ELSE drawn,
         positions |-> [id \in DOMAIN positions |->
                           IF id \in fixed THEN positions[id]
                           ELSE LET j == CHOOSE j \in DOMAIN mobile : mobile[j] = id
                                IN  [at    |-> positions[id].at,
                                     moved |-> Append(positions[id].moved, pushes(j))]]]

\* ------------------------------------------------------------------------
\* Part VII: actions
\* ------------------------------------------------------------------------

StochInit ==
    /\ s_layout \in {"random", "force", "curved", "curved_default_k"}
    /\ s_edges \in StochEdgeLists
    /\ s_node_positions = IF s_layout \in {"curved", "curved_default_k"}
                          THEN [n \in UniqueNodes(Range(s_edges)) |-> StochNodePositions[n]]
                          ELSE <<>>
    /\ s_seed \in 0..MaxSeed
    /\ s_total_iterations = MaxStochIterations
    /\ s_drawn = [run \in Runs |-> 0]
    /\ s_control_points = [run \in Runs |-> <<>>]
    /\ s_positions = [run \in Runs |-> <<>>]
    /\ s_ii = [run \in Runs |-> 0]
    /\ s_output = [run \in Runs |-> <<>>]
    /\ spc = [run \in Runs |-> "call"]

\* get_random_layout
RandomLayout(run) ==
    /\ UNCHANGED stochOther
    /\ s_layout = "random"
    /\ spc[run] = "call"
    /\ LET nodes == UniqueNodeList(s_edges)
       IN  /\ s_output' = [s_output EXCEPT ![run] =
                  [n \in Range(nodes) |->
                      LET idx == CHOOSE idx \in DOMAIN nodes : nodes[idx] = n
                      IN  StartAt(RandomPair(s_seed, s_drawn[run] + 2 * (idx - 1)))]]
           /\ s_drawn' = [s_drawn EXCEPT ![run] = @ + 2 * Len(nodes)]
    /\ spc' = [spc EXCEPT ![run] = "done"]
    /\ UNCHANGED <<s_layout, s_edges, s_node_positions, s_seed, s_total_iterations,
                   s_control_points, s_positions, s_ii>>

\* get_fruchterman_reingold_layout without node_positions, up to the main
\* loop: random starting positions for the connected nodes.
ForceSetup(run) ==
    /\ UNCHANGED stochOther
    /\ s_layout = "force"
    /\ spc[run] = "call"
    /\ LET nodes == UniqueNodeList(s_edges)
       IN  /\ s_positions' = [s_positions EXCEPT ![run] =
                  [n \in Range(nodes) |->
                      LET idx == CHOOSE idx \in DOMAIN nodes : nodes[idx] = n
                      IN  StartAt(RandomPair(s_seed, s_drawn[run] + 2 * (idx - 1)))]]
           /\ s_drawn' = [s_drawn EXCEPT ![run] = @ + 2 * Len(nodes)]
    /\ spc' = [spc EXCEPT ![run] = "loop"]
    /\ UNCHANGED <<s_layout, s_edges, s_node_positions, s_seed, s_total_iterations,
                   s_control_points, s_ii, s_output>>

\* get_curved_edge_paths with k left at None: `total_nodes = len(nodes)`
\* reads a name that is bound neither in the function nor in the module, and
\* the call ends with a NameError.
CurvedDefaultK(run) ==
    /\ UNCHANGED stochOther
    /\ s_layout = "curved_default_k"
    /\ spc[run] = "call"
    /\ spc' = [spc EXCEPT ![run] = "raised"]
    /\ UNCHANGED <<s_layout, s_edges, s_node_positions, s_seed, s_total_iterations,
                   s_drawn, s_control_points, s_positions, s_ii, s_output>>

\* get_curved_edge_paths with a value for k, up to the main loop of the
\* force-directed layout of the expanded edges.
CurvedSetup(run) ==
    /\ UNCHANGED stochOther
    /\ s_layout = "curved"
    /\ spc[run] = "call"
    /\ \E names \in ControlPointNames(s_edges) :
           /\ s_control_points' = [s_control_points EXCEPT ![run] = names]
           /\ s_positions' = [s_positions EXCEPT ![run] =
                  ExpandedNodePositions(s_edges, names, s_node_positions)]
    /\ spc' = [spc EXCEPT ![run] = "loop"]
    /\ UNCHANGED <<s_layout, s_edges, s_node_positions, s_seed, s_total_iterations,
                   s_drawn, s_ii, s_output>>

\* One iteration of the main loop of the force-directed layout.
StochIterate(run) ==
    /\ UNCHANGED stochOther
    /\ spc[run] = "loop"
    /\ s_ii[run] < s_total_iterations
    /\ LET edges == IF s_layout = "curved"
                    THEN ExpandedEdges(s_edges, s_control_points[run])
                    ELSE Range(s_edges)
           fixed == IF s_layout = "curved" THEN DOMAIN s_node_positions ELSE {}
           candidate == CandidatePositions(SortedIds(UniqueNodes(edges)), fixed,
                                           s_positions[run], s_seed, s_drawn[run])
       IN  /\ s_positions' = [s_positions EXCEPT ![run] = candidate.positions]
           /\ s_drawn' = [s_drawn EXCEPT ![run] = candidate.drawn]
    /\ s_ii' = [s_ii EXCEPT ![run] = @ + 1]
    /\ UNCHANGED <<s_layout, s_edges, s_node_positions, s_seed, s_total_iterations,
                   s_control_points, s_output, spc>>

\* The return of get_fruchterman_reingold_layout: the node positions.
ForceReturn(run) ==
    /\ UNCHANGED stochOther
    /\ s_layout = "force"
    /\ spc[run] = "loop"
    /\ s_ii[run] = s_total_iterations
    /\ s_output' = [s_output EXCEPT ![run] = s_positions[run]]
    /\ spc' = [spc EXCEPT ![run] = "done"]
    /\ UNCHANGED <<s_layout, s_edges, s_node_positions, s_seed, s_total_iterations,
                   s_drawn, s_control_points, s_positions, s_ii>>

\* The return of get_curved_edge_paths: per edge the path through its
\* control points, from which the spline is fitted.
CurvedReturn(run) ==
    /\ UNCHANGED stochOther
    /\ s_layout = "curved"
    /\ spc[run] = "loop"
    /\ s_ii[run] = s_total_iterations
    /\ s_output' = [s_output EXCEPT ![run] =
           [edge \in Range(s_edges) |->
               LET e == CHOOSE e \in DOMAIN s_edges : s_edges[e] = edge
               IN  <<s_positions[run][edge[1]],
                     s_positions[run][s_control_points[run][e]],
                     s_positions[run][edge[2]]>>]]
    /\ spc' = [spc EXCEPT ![run] = "done"]
    /\ UNCHANGED <<s_layout, s_edges, s_node_positions, s_seed, s_total_iterations,
                   s_drawn, s_control_points, s_positions, s_ii>>

StochNext ==
    \/ \E run \in Runs : RandomLayout(run)
    \/ \E run \in Runs : ForceSetup(run)
    \/ \E run \in Runs : CurvedDefaultK(run)
    \/ \E run \in Runs : CurvedSetup(run)
    \/ \E run \in Runs : StochIterate(run)
    \/ \E run \in Runs : ForceReturn(run)
    \/ \E run \in Runs : CurvedReturn(run)

InitStoch == StochInit /\ CircIdle /\ DecIdle /\ FrIdle /\ RouteIdle /\ ParseIdle /\ BundleIdle

SpecStoch == InitStoch /\ [][StochNext]_vars

\* ------------------------------------------------------------------------
\* Part VII: properties
\* ------------------------------------------------------------------------

BothRunsReturned == \A run \in Runs : spc[run] = "done"

\* C18: two runs of the same stochastic layout on the same inputs, with the
\* random number generator in the same state at the start, return the same
\* output.
C18_SameStreamSameOutput == BothRunsReturned => s_output[1] = s_output[2]

\* The runs of the layouts that name no control points return the same output.
NodeLayoutRunsAgree ==
    (BothRunsReturned /\ s_layout \in {"random", "force"}) => s_output[1] = s_output[2]

\* The runs of the curved edge routing whose control point names are in the
\* same order return the same output.
SameOrderRunsAgree ==
    (/\ BothRunsReturned
     /\ s_layout = "curved"
     /\ \A a, b \in DOMAIN s_edges :
            (s_control_points[1][a] < s_control_points[1][b])
                <=> (s_control_points[2][a] < s_control_points[2][b]))
        => s_output[1] = s_output[2]

\* ------------------------------------------------------------------------
\* Part I: properties of the sifting loop
\* ------------------------------------------------------------------------

\* A swap of the inner loop has just been made.
AfterSwap == cpc = "swap" /\ jj > ii + 1

\* C21: after every swap of circular sifting, the incrementally maintained
\* total_crossings equals the number of crossing pairs of edges of the
\* current node order, counted from scratch over the undirected edges.
C21_TrackedTotalIsTrueCount ==
    AfterSwap => total_crossings = EdgeCrossings(node_order, node_to_neighbours)

\* The last pass of the returned call has lowered total_crossings.
LastPassImproved == previous_best - total_crossings # 0

\* C22: circular sifting stops at the first pass without improvement or
\* after max_iterations passes, and the diagnostic is emitted exactly when it
\* stopped because the bound was hit, not because a pass was without
\* improvement.
C22_DiagnosticIffBoundHit ==
    cpc = "done" =>
        /\ iteration + 1 <= max_iterations
        /\ ~LastPassImproved \/ iteration + 1 = max_iterations
        /\ warned <=> (LastPassImproved /\ iteration + 1 = max_iterations)

\* ------------------------------------------------------------------------
\* Part VI: properties of the reverse flag
\* ------------------------------------------------------------------------

\* Whether L < sqrt(X) - sqrt(Y), for an integer L and X, Y >= 0.
LessThanRootDifference(L, X, Y) ==
    LET M == X + Y - L * L
    IN  IF X >= Y
        THEN L < 0 \/ (M > 0 /\ 4 * X * Y < M * M)
        ELSE L < 0 /\ (M < 0 \/ 4 * X * Y > M * M)

\* Whether sqrt(c) + sqrt(d) < sqrt(a) + sqrt(b), for the squares a, b, c, d
\* of four distances: both sides are squared once.
RootSumLess(c, d, a, b) == LessThanRootDifference((c + d) - (a + b), 4 * a * b, 4 * c * d)

\* |P0 - Q1| + |P1 - Q0| < |P0 - Q0| + |P1 - Q1|
ReversedReadingIsShorter(P0, P1, Q0, Q1) ==
    RootSumLess(SquaredNorm(P0, Q1), SquaredNorm(P1, Q0),
                SquaredNorm(P0, Q0), SquaredNorm(P1, Q1))

\* C23: for every pair of edges retained for bundling, the reverse flag is
\* set exactly when reading one chain in reverse gives a smaller sum of the
\* two end point distances: |P0 - Q1| + |P1 - Q0| < |P0 - Q0| + |P1 - Q1|.
C23_ReverseFlagMinimisesSummedDistance ==
    \A pair \in b_compatibility :
        pair.reverse <=>
            ReversedReadingIsShorter(b_node_positions[pair.e1[1]], b_node_positions[pair.e1[2]],
                                     b_node_positions[pair.e2[1]], b_node_positions[pair.e2[2]])

\* ------------------------------------------------------------------------
\* Part VI: properties of the cycles
\* ------------------------------------------------------------------------

\* The control points of the simulated edges exist.
ControlPointsInitialised == bpc \in {"cycle", "iterate", "raised", "done"}

\* C24: every simulated edge starts with 2 control points and has exactly
\* 2^c + 1 control points after the c-th expansion, so at every moment all
\* simulated edges have the same number of control points.
C24_ControlPointCount ==
    ControlPointsInitialised =>
        /\ DOMAIN b_control_points = Range(b_simulated)
        /\ \A edge \in Range(b_simulated) :
               Len(b_control_points[edge]) = 2 ^ b_cycle + 1
        /\ \A edge, other \in Range(b_simulated) :
               Len(b_control_points[edge]) = Len(b_control_points[other])

\* Two simulated edges after the last of MaxCycles expansions and a
\* sub-iteration.
C24_Witness ==
    /\ bpc = "iterate"
    /\ b_cycle = MaxCycles
    /\ b_iteration > 0
    /\ Cardinality(Range(b_simulated)) >= 2
    /\ \A edge \in Range(b_simulated) : Len(b_control_points[edge]) = 2 ^ MaxCycles + 1

\* The call has left the cycles: it has returned or raised.
BundleStopped == bpc \in {"done", "raised"}

\* The calls with no more than two edges: the cycles and their sub-iterations
\* are counted without regard to the edges.
CyclesInit == BundleInit /\ Len(b_edges) <= 2

InitCycles == CyclesInit /\ CircIdle /\ DecIdle /\ FrIdle /\ RouteIdle /\ ParseIdle /\ StochIdle

\* The cycles under weak fairness: a call that can take a step takes one.
SpecCycles == InitCycles /\ [][BundleNext]_vars /\ WF_vars(BundleNext)

\* C25: edge bundling terminates after exactly total_cycles cycles; cycle c
\* (from 0) runs I_c sub-iterations with I_0 = total_iterations and
\* I_(c+1) = floor(2 * I_c / 3), with the step size halved c times, and the
\* number of sub-iterations never increases from one cycle to the next.
C25_CycleSchedule ==
    /\ <>BundleStopped
    /\ [](BundleStopped => b_cycle = b_total_cycles)
    /\ [](b_cycle <= b_total_cycles)
    /\ [][b_cycle' # b_cycle =>
             /\ b_cycle' = b_cycle + 1
             /\ b_halvings = b_cycle
             /\ b_iteration' = 0
             /\ b_total_iterations' = b_total_iterations]_vars
    /\ [][b_iteration' # b_iteration /\ b_cycle' = b_cycle =>
             /\ b_iteration' = b_iteration + 1
             /\ b_iteration' <= b_total_iterations
             /\ b_halvings' = b_halvings
             /\ b_total_iterations' = b_total_iterations]_vars
    /\ [][b_halvings' # b_halvings \/ b_total_iterations' # b_total_iterations =>
             /\ b_iteration = b_total_iterations
             /\ b_halvings' = b_halvings + 1
             /\ b_halvings' = b_cycle
             /\ 3 * b_total_iterations' <= 2 * b_total_iterations
             /\ 3 * b_total_iterations' > 2 * b_total_iterations - 3
             /\ b_total_iterations' <= b_total_iterations]_vars

\* A call of MaxCycles cycles has stopped, the first cycle with
\* MaxSubIterations sub-iterations, the later ones with fewer.
C25_Witness ==
    /\ BundleStopped
    /\ b_total_cycles = MaxCycles
    /\ b_cycle = MaxCycles
    /\ b_halvings = MaxCycles
    /\ b_iteration > 0
    /\ b_iteration < MaxSubIterations

\* ------------------------------------------------------------------------
\* Part III and Part VI: one iteration, processed element by element
\* ------------------------------------------------------------------------

\* The sequences in which the elements of S can be processed.
RECURSIVE Orders(_)
Orders(S) ==
    IF S = {} THEN {<<>>}
    ELSE UNION {{<<e>> \o rest : rest \in Orders(S \ {e})} : e \in S}

\* mobile_positions[is_valid] = candidate_positions[is_valid], written node
\* by node in the given order.
RECURSIVE WrittenInOrder(_, _, _, _)
WrittenInOrder(order, mobile_positions, candidate_positions, is_valid) ==
    IF order = <<>> THEN mobile_positions
    ELSE LET n == Head(order)
         IN  WrittenInOrder(Tail(order),
                            IF is_valid[n]
                            THEN [mobile_positions EXCEPT ![n] = candidate_positions[n]]
                            ELSE mobile_positions,
                            candidate_positions, is_valid)

\* The loop of _get_Fs over the edges in the given order: every edge gets
\* its entry of out, computed from its own control points.
RECURSIVE FsInOrder(_, _, _)
FsInOrder(order, edge_to_control_points, out) ==
    IF order = <<>> THEN out
    ELSE LET edge == Head(order)
             control_points == edge_to_control_points[edge]
             delta == [idx \in DOMAIN control_points |->
                          IF idx = 1 \/ idx = Len(control_points) THEN "zero"
                          ELSE SpringDelta(control_points, idx)]
         IN  FsInOrder(Tail(order), edge_to_control_points, out @@ (edge :> delta))

\* The loop of _get_Fe over the pairs of edge_compatibility in the given
\* order: out[e1] += displacement, then out[e2] -= displacement, read in
\* reverse for a reversed pair.
RECURSIVE FeInOrder(_, _, _)
FeInOrder(order, edge_to_control_points, out) ==
    IF order = <<>> THEN out
    ELSE LET pair == Head(order)
             P == edge_to_control_points[pair.e1]
             Q == IF pair.reverse THEN Reversed(edge_to_control_points[pair.e2])
                  ELSE edge_to_control_points[pair.e2]
             displacement == [idx \in DOMAIN P |-> Displacement(P, Q, idx)]
             added == [out EXCEPT ![pair.e1] =
                          [idx \in DOMAIN P |-> ForceSum({out[pair.e1][idx], displacement[idx]})]]
             subtracted == [added EXCEPT ![pair.e2] =
                               [idx \in DOMAIN P |->
                                   ForceSum({added[pair.e2][idx],
                                             IF pair.reverse
                                             THEN displacement[Len(P) + 1 - idx]
                                             ELSE displacement[idx]})]]
         IN  FeInOrder(Tail(order), edge_to_control_points, subtracted)

\* Mutation of UpdatedInOrder: the forces are computed again from the control
\* points as they are before each edge is written.
RECURSIVE UpdatedInOrder_Recomputed(_, _, _)
UpdatedInOrder_Recomputed(order, edge_to_control_points, F) ==
    IF order = <<>> THEN edge_to_control_points
    ELSE LET edge == Head(order)
             again == _get_Fe(edge_to_control_points, b_compatibility,
                              _get_Fs(edge_to_control_points))
             written == _update_control_point_positions(edge_to_control_points, again)[edge]
         IN  UpdatedInOrder_Recomputed(Tail(order),
                                       [edge_to_control_points EXCEPT ![edge] = written], F)

\* The loop of _update_control_point_positions over F.items() in the given
\* order: edge_to_control_points[edge] += displacement, with the displacement
\* of the edge scaled by its norm.
RECURSIVE UpdatedInOrder(_, _, _)
UpdatedInOrder(order, edge_to_control_points, F) ==
    IF order = <<>> THEN edge_to_control_points
    ELSE LET edge == Head(order)
             control_points == edge_to_control_points[edge]
             written ==
                 IF \E idx \in DOMAIN control_points : F[edge][idx] = "nan"
                 THEN [idx \in DOMAIN control_points |-> NaNPoint]
                 ELSE [idx \in DOMAIN control_points |->
                         IF F[edge][idx] = "zero" \/ control_points[idx].kind = "nan"
                         THEN control_points[idx]
                         ELSE MovedPoint]
         IN  UpdatedInOrder(Tail(order),
                            [edge_to_control_points EXCEPT ![edge] = written], F)

\* The main loop of the force-directed layout and the sub-iterations of the
\* bundling, side by side. The layout calls are those of the graph of the
\* two nodes of an edge, which act on each other; the bundling calls are
\* those with no more than three edges, which make three pairs.
InitIteration ==
    \/ InitLoop /\ f_edges = {<<1, 2>>} /\ DOMAIN f_supplied \subseteq {1, 2}
    \/ InitBundle /\ Len(b_edges) <= 3

IterationNext == LoopNext \/ BundleNext

SpecIteration == InitIteration /\ [][IterationNext]_vars

\* An iteration of the main loop of the force-directed layout is taken.
MainLoopStep == f_ii' = f_ii + 1

\* A sub-iteration of the bundling is taken.
SubIterationStep == b_iteration' = b_iteration + 1 /\ b_cycle' = b_cycle

\* The main loop iteration computes every displacement from the positions
\* before the iteration, and writing the valid candidates node by node gives,
\* in every order, the positions after the iteration.
MainLoopFromSnapshot ==
    MainLoopStep =>
        \E displacement \in Displacements(f_array, MobileNodes) :
            LET candidate_positions == _fruchterman_reingold(f_array, MobileNodes, displacement)
                is_valid == [n \in MobileNodes |->
                                IsValid(candidate_positions[n], displacement[n],
                                        f_origin, f_scale)]
            IN  /\ \A n \in MobileNodes :
                       f_array'[n] = IF is_valid[n] THEN candidate_positions[n] ELSE f_array[n]
                /\ \A order \in Orders(MobileNodes) :
                       WrittenInOrder(order, f_array, candidate_positions, is_valid) = f_array'

\* The sub-iteration computes the spring forces, then the forces between the
\* pairs, then the update, each in any order, from the control points before
\* the sub-iteration.
SubIterationFromSnapshot ==
    SubIterationStep =>
        LET edges == DOMAIN b_control_points
            Fs == _get_Fs(b_control_points)
            Fe == _get_Fe(b_control_points, b_compatibility, Fs)
        IN  /\ \A order \in Orders(edges) : FsInOrder(order, b_control_points, <<>>) = Fs
            /\ \A order \in Orders(b_compatibility) :
                   FeInOrder(order, b_control_points, Fs) = Fe
            /\ \A order \in Orders(edges) :
                   UpdatedInOrder(order, b_control_points, Fe) = b_control_points'

\* C26: within one iteration of the force-directed main loop and within one
\* sub-iteration of the bundling every force is computed from the positions
\* at the start of the iteration and the positions are written after all
\* forces are computed, so that every order of processing the nodes, the
\* edges and the edge pairs gives the same positions at its end.
C26_ForcesFromSnapshot ==
    [][MainLoopFromSnapshot /\ SubIterationFromSnapshot]_vars

\* Three edges after a sub-iteration in which the forces moved one of them and
\* left another without numbers, and a main loop iteration that moved one of
\* two mobile nodes.
C26_Witness ==
    \/ /\ bpc = "iterate"
       /\ b_iteration > 0
       /\ Cardinality(DOMAIN b_control_points) = 3
       /\ \E e1 \in DOMAIN b_control_points : \E e2 \in DOMAIN b_control_points :
              /\ HasNaN(b_control_points[e1])
              /\ ~HasNaN(b_control_points[e2])
              /\ \E idx \in DOMAIN b_control_points[e2] :
                     b_control_points[e2][idx].kind = "moved"
    \/ /\ fpc = "loop"
       /\ f_ii > 0
       /\ Cardinality(MobileNodes) >= 2
       /\ f_moved # {}
       /\ f_moved # MobileNodes

\* ------------------------------------------------------------------------
\* Part VIII  overlap relaxation (_reduce_node_overlap). A call has the
\* arguments and locals of a call of Part III and is kept in its variables:
\* f_node_positions is node_positions, f_fixed_nodes is fixed_nodes, f_array
\* is positions, f_ii counts the iterations; f_outside and f_moved record the
\* nodes whose new position was not valid and the nodes that were written in
\* the last iteration.
\* ------------------------------------------------------------------------

\* node_positions: three nodes within the bbox, three nodes of which one is
\* outside, and four nodes within the bbox; no two coincide and no three are
\* on a line.
OverlapPositions ==
    {<<[x |-> 0, y |-> 0], [x |-> One, y |-> 0], [x |-> 0, y |-> One]>>,
     <<[x |-> 0, y |-> 0], [x |-> One, y |-> One], [x |-> Big, y |-> 0]>>,
     <<[x |-> 0, y |-> 0], [x |-> One, y |-> 0], [x |-> 0, y |-> One], [x |-> 1, y |-> 1]>>}

\* fixed_nodes: None, one node, two nodes, a node that is not a key.
OverlapFixedChoices == {{}, {1}, {1, 2}, {9}}

\* positions + eta * delta for one node: the centroid of its Voronoi cell,
\* which scipy computes, puts it within the bbox, on its border or outside.
NewPoints == {[x |-> 1, y |-> 1], [x |-> One, y |-> One], [x |-> Big, y |-> 1]}

\* The new position of a node whose cell has no finite vertex: the mean of no
\* points, which is not a number.
NotANumber == [nan |-> TRUE]

\* Mutation of Mask: is_mobile is left out.
Mask_ValidOnly(valid, is_mobile) == valid

\* mask = np.logical_and(valid, is_mobile), for one node
Mask(valid, is_mobile) == valid /\ is_mobile

\* A call _reduce_node_overlap(node_positions, origin, scale, fixed_nodes,
\* total_iterations=...).
OverlapInit ==
    /\ f_edges = {}
    /\ f_given = TRUE
    /\ f_origin = Zeros
    /\ f_scale = Ones
    /\ f_supplied \in OverlapPositions
    /\ f_node_positions = f_supplied
    /\ f_fixed \in OverlapFixedChoices
    /\ f_fixed_nodes = f_fixed
    /\ f_total_iterations \in 1..MaxTotalIterations
    /\ fpc = "relax_call"
    /\ f_array = <<>>
    /\ f_is_mobile = <<>>
    /\ f_ii = 0
    /\ f_rescaled = FALSE
    /\ f_result = <<>>
    /\ f_error_nodes = {}
    /\ f_outcome = "running"
    /\ f_outside = {}
    /\ f_moved = {}

\* unique_nodes, positions and is_mobile.
OverlapSetup ==
    /\ UNCHANGED frOther
    /\ fpc = "relax_call"
    /\ f_array' = f_node_positions
    /\ f_is_mobile' = [n \in DOMAIN f_node_positions |->
                          IF f_fixed_nodes # {} THEN n \notin f_fixed_nodes ELSE TRUE]
    /\ f_ii' = 0
    /\ fpc' = "relax"
    /\ UNCHANGED <<f_edges, f_given, f_origin, f_scale, f_supplied, f_node_positions,
                   f_fixed, f_fixed_nodes, f_total_iterations, f_rescaled, f_result,
                   f_error_nodes, f_outcome, f_outside, f_moved>>

\* One iteration: new for every node, then positions[mask] = new[mask]. No
\* comparison with a position that is not a number is true.
OverlapIterate ==
    /\ UNCHANGED frOther
    /\ fpc = "relax"
    /\ f_ii < f_total_iterations
    /\ \E new \in [DOMAIN f_array -> NewPoints \cup {NotANumber}] :
           LET valid == [n \in DOMAIN f_array |->
                            /\ new[n] # NotANumber
                            /\ _is_within_bbox(new[n], f_origin, f_scale)]
               mask == [n \in DOMAIN f_array |-> Mask(valid[n], f_is_mobile[n])]
           IN  /\ f_array' = [n \in DOMAIN f_array |-> IF mask[n] THEN new[n] ELSE f_array[n]]
               /\ f_outside' = {n \in DOMAIN f_array : ~valid[n]}
               /\ f_moved' = {n \in DOMAIN f_array : mask[n]}
    /\ f_ii' = f_ii + 1
    /\ UNCHANGED <<f_edges, f_given, f_origin, f_scale, f_supplied, f_node_positions,
                   f_fixed, f_fixed_nodes, f_total_iterations, fpc, f_is_mobile, f_rescaled,
                   f_result, f_error_nodes, f_outcome>>

\* Voronoi(positions) raises for positions that it cannot triangulate; which
\* positions those are is left open.
OverlapRaise ==
    /\ UNCHANGED frOther
    /\ fpc = "relax"
    /\ f_ii < f_total_iterations
    /\ f_outcome' = "raised"
    /\ fpc' = "relax_done"
    /\ UNCHANGED <<f_edges, f_given, f_origin, f_scale, f_supplied, f_node_positions,
                   f_fixed, f_fixed_nodes, f_total_iterations, f_array, f_is_mobile, f_ii,
                   f_rescaled, f_result, f_error_nodes, f_outside, f_moved>>

\* return dict(zip(unique_nodes, positions))
OverlapReturn ==
    /\ UNCHANGED frOther
    /\ fpc = "relax"
    /\ f_ii = f_total_iterations
    /\ f_result' = [n \in DOMAIN f_is_mobile |-> f_array[n]]
    /\ f_outcome' = "returned"
    /\ fpc' = "relax_done"
    /\ UNCHANGED <<f_edges, f_given, f_origin, f_scale, f_supplied, f_node_positions,
                   f_fixed, f_fixed_nodes, f_total_iterations, f_array, f_is_mobile, f_ii,
                   f_rescaled, f_error_nodes, f_outside, f_moved>>

OverlapNext ==
    \/ OverlapSetup
    \/ OverlapIterate
    \/ OverlapRaise
    \/ OverlapReturn

InitOverlap ==
    OverlapInit /\ CircIdle /\ DecIdle /\ RouteIdle /\ ParseIdle /\ BundleIdle /\ StochIdle

SpecOverlap == InitOverlap /\ [][OverlapNext]_vars

\* ------------------------------------------------------------------------
\* Part VIII: properties
\* ------------------------------------------------------------------------

OverlapReturned == fpc = "relax_done" /\ f_outcome = "returned"

\* C27: in every iteration of _reduce_node_overlap the position of a node
\* changes only if the node is mobile and its new position lies within the
\* bbox; the returned position of every fixed node is its input position, and
\* the returned keys are the input keys.
C27_OverlapMovesMobileNodesWithinBbox ==
    /\ [][f_ii' = f_ii + 1 =>
             \A n \in DOMAIN f_array :
                 f_array'[n] # f_array[n] =>
                     /\ n \notin f_fixed
                     /\ n \notin f_outside'
                     /\ InsideCanvas(f_array'[n])]_vars
    /\ [](OverlapReturned =>
             /\ DOMAIN f_result = DOMAIN f_supplied
             /\ \A n \in f_fixed \cap DOMAIN f_supplied : f_result[n] = f_supplied[n])

\* A returned call with a fixed node, in whose last iteration a mobile node
\* was written, the new position of another mobile node was not valid and the
\* new position of a fixed node was within the bbox.
C27_Witness ==
    /\ OverlapReturned
    /\ \E n \in f_fixed \cap DOMAIN f_result : n \notin f_outside
    /\ \E m \in f_moved : f_result[m] # f_supplied[m]
    /\ \E m \in DOMAIN f_result : m \notin f_fixed /\ m \in f_outside

\* ------------------------------------------------------------------------
\* Part I: _initialize_node_order on its own
\* ------------------------------------------------------------------------

InitInitialize == InitCirc /\ entry = "reduce"

InitializeNext == InitializeStep \/ InitializeReturn

SpecInitialize == InitInitialize /\ [][InitializeNext]_vars

\* The node that the step of the while loop has placed.
Selected == CHOOSE node \in Range(ordered') : node \notin Range(ordered)

\* The sequence holds every node of the set once.
IsPermutationOf(order, nodes) == Len(order) = Cardinality(nodes) /\ Range(order) = nodes

\* C28: at every step of _initialize_node_order the selected node has the
\* largest number of placed neighbours among the unplaced nodes and, among the
\* unplaced nodes with that number, the smallest number of unplaced
\* neighbours; every node is selected once, so the result is a permutation of
\* the nodes.
C28_GreedySelection ==
    /\ [][remaining' # remaining =>
             /\ Selected \in Range(remaining)
             /\ Range(ordered') = Range(ordered) \cup {Selected}
             /\ Range(remaining') = Range(remaining) \ {Selected}
             /\ Len(remaining') = Len(remaining) - 1
             /\ \A node \in Range(remaining) :
                    /\ PlacedNeighbours(node_to_neighbours, node, ordered)
                           <= PlacedNeighbours(node_to_neighbours, Selected, ordered)
                    /\ PlacedNeighbours(node_to_neighbours, node, ordered)
                           = PlacedNeighbours(node_to_neighbours, Selected, ordered)
                       => UnplacedNeighbours(node_to_neighbours, Selected, ordered)
                              <= UnplacedNeighbours(node_to_neighbours, node, ordered)]_vars
    /\ [](cpc = "initialize" =>
             IsPermutationOf(ordered \o remaining, DOMAIN node_to_neighbours))
    /\ [](cpc = "optimize" => IsPermutationOf(start_order, DOMAIN node_to_neighbours))

\* After the first selection: the selected node was not the first of the
\* unplaced nodes, and another unplaced node had as many placed neighbours
\* and more unplaced ones.
C28_Witness ==
    /\ cpc = "initialize"
    /\ Len(ordered) = 2
    /\ LET before == <<keys[1]>>
           first == CHOOSE node \in Range(ordered) : node # keys[1]
       IN  /\ first # keys[2]
           /\ \E other \in Range(Tail(keys)) :
                  /\ PlacedNeighbours(node_to_neighbours, other, before)
                         = PlacedNeighbours(node_to_neighbours, first, before)
                  /\ UnplacedNeighbours(node_to_neighbours, first, before)
                         < UnplacedNeighbours(node_to_neighbours, other, before)

\* ------------------------------------------------------------------------
\* Part V: the dispatch of parse_graph. A call is kept in the variables of
\* Part V: p_edges is the argument graph, as its class and, for a list of
\* tuples or a two-dimensional array, its shape; p_result is the way the call
\* ends. The parsers that the dispatch hands the graph to are not entered.
\* ------------------------------------------------------------------------

\* The largest number of rows of an array.
MaxRows == 6

\* The largest number of columns of an array, or length of the tuples of a
\* list.
MaxColumns == 6

\* The classes of the argument.
GraphClasses == {"list", "ndarray", "igraph", "networkx", "other"}

\* The arguments: a list of tuples of one length, an array with a shape, a
\* graph object of a library, an object of another class.
Graphs ==
    {g \in [class : GraphClasses, rows : 0..MaxRows, columns : 0..MaxColumns] :
        /\ g.class \in {"igraph", "networkx", "other"} => g.rows = 0 /\ g.columns = 0
        /\ g.class = "list" => g.rows = 1}

Returned(value) == [outcome |-> "returned", value |-> value]

Raised(error) == [outcome |-> "raised", value |-> error]

IsSparse(graph) ==
    \/ graph.class = "list"
    \/ graph.class = "ndarray" /\ graph.columns \in {2, 3}

IsSquare(graph) ==
    graph.class = "ndarray" /\ graph.columns \notin {2, 3} /\ graph.rows = graph.columns

ParseGraphInit ==
    /\ p_edges \in Graphs
    /\ p_new_edges = <<>>
    /\ p_ii = 0
    /\ p_warnings = 0
    /\ p_result = <<>>
    /\ ppc = "parse_graph"

\* return _parse_sparse_matrix_format(graph), which raises ValueError unless
\* the tuples have length 2 or 3.
ParseSparseMatrixFormat ==
    /\ UNCHANGED parseOther
    /\ ppc = "parse_graph"
    /\ IsSparse(p_edges)
    /\ p_result' = IF p_edges.columns \in {2, 3}
                   THEN Returned("nodes, edges, edge_weight")
                   ELSE Raised("ValueError")
    /\ ppc' = "returned"
    /\ UNCHANGED <<p_edges, p_new_edges, p_ii, p_warnings>>

\* return _parse_adjacency_matrix(graph)
ParseAdjacencyMatrix ==
    /\ UNCHANGED parseOther
    /\ ppc = "parse_graph"
    /\ IsSquare(p_edges)
    /\ p_result' = Returned("nodes, edges, edge_weight")
    /\ ppc' = "returned"
    /\ UNCHANGED <<p_edges, p_new_edges, p_ii, p_warnings>>

\* An array of another shape: msg is put together and the if statement is
\* left; the function has no statement after it, so the call returns None.
ParseOtherShape ==
    /\ UNCHANGED parseOther
    /\ ppc = "parse_graph"
    /\ p_edges.class = "ndarray"
    /\ ~IsSparse(p_edges)
    /\ ~IsSquare(p_edges)
    /\ p_result' = Returned("None")
    /\ ppc' = "returned"
    /\ UNCHANGED <<p_edges, p_new_edges, p_ii, p_warnings>>

\* return _parse_igraph_graph(graph), return _parse_networkx_graph(graph)
ParseLibraryGraph ==
    /\ UNCHANGED parseOther
    /\ ppc = "parse_graph"
    /\ p_edges.class \in {"igraph", "networkx"}
    /\ p_result' = Returned("nodes, edges, edge_weight")
    /\ ppc' = "returned"
    /\ UNCHANGED <<p_edges, p_new_edges, p_ii, p_warnings>>

\* raise NotImplementedError(...)
ParseNotImplemented ==
    /\ UNCHANGED parseOther
    /\ ppc = "parse_graph"
    /\ p_edges.class = "other"
    /\ p_result' = Raised("NotImplementedError")
    /\ ppc' = "returned"
    /\ UNCHANGED <<p_edges, p_new_edges, p_ii, p_warnings>>

ParseGraphNext ==
    \/ ParseSparseMatrixFormat
    \/ ParseAdjacencyMatrix
    \/ ParseOtherShape
    \/ ParseLibraryGraph
    \/ ParseNotImplemented

InitParseGraph ==
    ParseGraphInit /\ CircIdle /\ DecIdle /\ FrIdle /\ RouteIdle /\ BundleIdle /\ StochIdle

SpecParseGraph == InitParseGraph /\ [][ParseGraphNext]_vars

\* C29: parse_graph called with an array whose shape is neither (E, 2) or
\* (E, 3) nor square reports an error and does not return a result.
C29_OtherShapeIsAnError ==
    (/\ ppc = "returned"
     /\ p_edges.class = "ndarray"
     /\ p_edges.columns \notin {2, 3}
     /\ p_edges.rows # p_edges.columns)
        => p_result.outcome = "raised"

\* ------------------------------------------------------------------------
\* Part VII: properties of the default spring constant
\* ------------------------------------------------------------------------

\* The run has ended, with a value or with an exception.
RunEnded(run) == spc[run] \in {"done", "raised"}

\* C30: get_curved_edge_paths called with k = None does not fail: it sets k
\* to 0.1 * sqrt(area / total nodes) and returns a path for every edge.
C30_DefaultSpringConstantReturnsPaths ==
    \A run \in Runs :
        (s_layout = "curved_default_k" /\ RunEnded(run)) =>
            /\ spc[run] = "done"
            /\ DOMAIN s_output[run] = Range(s_edges)

====
